---- MODULE Spec2Model ----
(***************************************************************************)
(* The graphsync transport of go-data-transfer                             *)
(* (transport/graphsync/graphsync.go): the registry of in-flight channels, *)
(* the facade operations, the engine hooks and the request executor.       *)
(*                                                                         *)
(* Every critical section of dataLock is one atomic step. A facade         *)
(* operation that can suspend (OpenChannel, and the operations that await  *)
(* the engine key) is split at its suspension points and runs on a thread  *)
(* of Threads; hooks and listeners are invoked by the engine and run       *)
(* whole. The engine and the session are external: what they return is     *)
(* drawn from small sets.                                                  *)
(***************************************************************************)
EXTENDS Integers, Sequences, FiniteSets, TLC

\* ------------------------------------------------------------------ bounds

\* transfer sequence numbers in use
MaxXfer == 1
\* engine request numbers: OpenChannel calls that reach the engine, and the
\* request numbers a remote peer uses
MaxReq == 2
\* messages a channel may hold deferred while its requestor is cancelled
MaxDeferred == 2

\* ------------------------------------------------------------------ values

Local == "L"
Remotes == {"R"}
Peers == {Local} \cup Remotes
Threads == {"t1", "t2"}
Main == "t1"
XferIDs == 1..MaxXfer
ReqIDs == 1..MaxReq

\* datatransfer.ChannelID
ChannelIDs ==
    {[Initiator |-> Local, Responder |-> r, ID |-> i] : r \in Remotes, i \in XferIDs}
    \cup {[Initiator |-> r, Responder |-> Local, ID |-> i] : r \in Remotes, i \in XferIDs}

NoChan == [Initiator |-> "-", Responder |-> "-", ID |-> 0]

graphsyncKey(requestID, p) == [requestID |-> requestID, p |-> p]

NoKey == graphsyncKey(0, "-")

\* Go maps: functions whose domain is the set of keys present
EmptyMap == [x \in {} |-> 0]

Has(m, k) == k \in DOMAIN m

Put(m, k, v) == [x \in DOMAIN m \cup {k} |-> IF x = k THEN v ELSE m[x]]

Del(m, k) == [x \in DOMAIN m \ {k} |-> m[x]]

Range(m) == {m[x] : x \in DOMAIN m}

\* the sentinel and other results a session callback or the engine returns
Nil == "nil"
ErrPause == "ErrPause"
ErrOther == "error"
ErrChannelNotFound == "ErrChannelNotFound"
ErrHandlerNotSet == "ErrHandlerNotSet"
ErrHandlerAlreadySet == "ErrHandlerAlreadySet"
ErrCtx == "ctx.Err"
CallbackErrs == {Nil, ErrPause, ErrOther}

\* what the drained error stream of a request ends with
RequestContextCancelledErr == "RequestContextCancelledErr"
RequestCancelledErr == "RequestCancelledErr"
LastErrors == {Nil, RequestContextCancelledErr, RequestCancelledErr, ErrOther}

\* graphsync.ResponseStatusCode, the terminal ones the listener distinguishes
RequestCompletedFull == "RequestCompletedFull"
RequestCancelled == "RequestCancelled"
Statuses == {RequestCompletedFull, RequestCancelled, "RequestCompletedPartial",
             "RequestFailedUnknown"}

\* a data-transfer message: a request or a response with a transfer id
Messages == [kind : {"request", "response"}, TransferID : XferIDs]

\* extension.GetTransferData: a message, no data-transfer extension (nil, nil),
\* or a payload that does not decode (nil, err)
NoMsg == [kind |-> "none", TransferID |-> 0]
Malformed == [kind |-> "malformed", TransferID |-> 0]
TransferData == Messages \cup {NoMsg, Malformed}

IsRequest(msg) == msg.kind = "request"

\* the message the session hands OpenChannel for a channel: a request when
\* this node initiated the transfer (pull), a response otherwise (push)
MsgFor(chid) ==
    [kind |-> IF chid.Initiator = Local THEN "request" ELSE "response", TransferID |-> chid.ID]

\* ------------------------------------------------------------------ calls

\* One call the adapter makes: a session event, an engine call or a hook
\* action, with the registry lock the caller holds at the call.
Call(kind, name, chid, id, p, lock) ==
    [kind |-> kind, name |-> name, chid |-> chid, id |-> id, p |-> p, lock |-> lock]

Event(name, chid, lock) == Call("event", name, chid, 0, "-", lock)

\* an event with the error it carries (a completion, a time-out) or the
\* result the session returns for it
EventErr(name, chid, err, lock) == Call("event", name, chid, 0, err, lock)

Engine(name, chid, id, p, lock) == Call("gs", name, chid, id, p, lock)

Action(name, lock) == Call("hook", name, NoChan, 0, "-", lock)

\* hookActions.SendExtensionData, once per extension
Send(name, exts, lock) == [i \in 1..Len(exts) |-> Call("hook", name, NoChan, exts[i].msg, exts[i].name, lock)]

Names(cs, kind) == {cs[i].name : i \in {j \in 1..Len(cs) : cs[j].kind = kind}}

Count(cs, names) == Cardinality({i \in 1..Len(cs) : cs[i].name \in names})

CountFor(cs, names, chid) ==
    Cardinality({i \in 1..Len(cs) : cs[i].name \in names /\ cs[i].chid = chid})

\* ------------------------------------------------------------------ state

\* datatransfer.EventsHandler values: the session's handler, another one, and
\* the nil interface
Session == "session"
NoHandler == "nil handler"
EventsHandlers == {Session, "other session", NoHandler}

\* the eleven hooks and listeners SetEventHandler registers with the engine
AllHooks == {"IncomingRequestHook", "CompletedResponseListener", "IncomingBlockHook",
             "OutgoingBlockHook", "BlockSentListener", "OutgoingRequestHook",
             "IncomingResponseHook", "RequestUpdatedHook", "RequestorCancelledListener",
             "NetworkErrorListener", "ReceiverNetworkErrorListener"}

VARIABLES
    t,          \* the Transport: events, unregisterFuncs and the registry maps
    gs,         \* the engine: hooks registered, persistence options registered
    reqs,       \* one record per cancelRequest OpenChannel created, in order: its
                \* context, its two latches, its engine request and executor
    th,         \* the threads running facade operations
    chanLocker, \* the channel lock table: the thread holding each channel's lock
    observed,   \* whether the calls are being recorded
    calls,      \* the calls the last step made, in order
    hist        \* which channels the session has seen opened and completed

vars == <<t, gs, reqs, th, chanLocker, observed, calls, hist>>

\* a thread: the operation it runs and where it is in it, the operation's
\* channel and message, whether its ctx is done, and the operation's locals:
\* old, the cancel handle OpenChannel found; h, the handle it created or the
\* pending latch awaited; key, the engine key found; wait, how the wait for
\* the old request ended
Idle == [op |-> "-", pc |-> "idle", chid |-> NoChan, msg |-> 0, ctx |-> FALSE,
         old |-> 0, h |-> 0, key |-> NoKey, wait |-> "-"]

\* NewTransport
NewTransport ==
    [events |-> NoHandler,
     unregisterFuncs |-> {},
     graphsyncRequestMap |-> EmptyMap,
     channelIDMap |-> EmptyMap,
     contextCancelMap |-> EmptyMap,
     pending |-> EmptyMap,
     requestorCancelledMap |-> {},
     channelXferStarted |-> EmptyMap,
     pendingExtensions |-> EmptyMap,
     stores |-> {}]

\* The state after NewTransport. calls and hist are history variables: they
\* record what the adapter does and decide nothing. A specification that
\* checks no call leaves them empty.
Start(obs) ==
    /\ observed = obs
    /\ t = NewTransport
    /\ gs = [hooks |-> {}, options |-> {}]
    /\ reqs = << >>
    /\ th = [x \in Threads |-> Idle]
    /\ chanLocker = EmptyMap
    /\ calls = << >>
    /\ hist = [opened |-> {}, completed |-> {}]

\* the channels named by the events of cs called name
Chans(cs, name) == {cs[i].chid : i \in {j \in 1..Len(cs) : cs[j].kind = "event" /\ cs[j].name = name}}

Init == Start(FALSE)

Observed == Start(TRUE)

\* every step records the calls it made, and what the session has seen so far
Made(cs) ==
    /\ observed' = observed
    /\ calls' = IF observed THEN cs ELSE << >>
    /\ hist' = IF ~observed THEN hist ELSE
               [hist EXCEPT !.opened = @ \cup Chans(cs, "OnChannelOpened"),
                            !.completed = @ \cup Chans(cs, "OnChannelCompleted")]

\* a facade operation returns ret on thread x
Return(x, op, chid, ret) == Call("return", op, chid, 0, ret, x)

\* extension.ToExtensionData: one extension per supported version, in order
supportedExtensions == <<"ExtensionDataTransfer1_1", "ExtensionDataTransfer1_0">>

ToExtensionData(msg) == [i \in 1..Len(supportedExtensions) |-> [name |-> supportedExtensions[i], msg |-> msg]]

\* ------------------------------------------------------------------ OpenChannel

\* a new cancelRequest and its engine request, as OpenChannel creates them
cancelRequest(chid, ctxDone) ==
    [chid |-> chid,
     cancelled |-> ctxDone,     \* internalCtx is done
     completed |-> FALSE,       \* the completed latch is closed
     pendingClosed |-> FALSE,   \* the pending latch created with it is closed
     state |-> "created",       \* created, running, fired, done: the executor
     hooked |-> FALSE,          \* the outgoing-request hook has fired for it
     lastError |-> "-"]         \* the executor's lastError, while it runs

\* cancelRQ.cancel(), for the handle of each channel in chids
Cancel(rs, hs) == [h \in DOMAIN rs |-> IF h \in hs THEN [rs[h] EXCEPT !.cancelled = TRUE] ELSE rs[h]]

\* threads that have entered OpenChannel and not yet created their handle
Opening == {x \in Threads : th[x].op = "OpenChannel" /\ th[x].pc \in {"lock", "locked", "wait", "minwait", "relock"}}

Finish(x) == th' = [th EXCEPT ![x] = Idle]

Goto(x, pc) == th' = [th EXCEPT ![x].pc = pc]

\* lines 124-131: the handler check and the serialization of msg
OpenChannelEnter(x, chid, encOk) ==
    /\ th[x].pc = "idle"
    /\ Len(reqs) + Cardinality(Opening) < MaxReq
    /\ IF t.events = NoHandler
       THEN /\ Finish(x)
            /\ Made(<<Return(x, "OpenChannel", chid, ErrHandlerNotSet)>>)
       ELSE IF ~encOk
       THEN /\ Finish(x)
            /\ Made(<<Return(x, "OpenChannel", chid, ErrOther)>>)
       ELSE /\ th' = [th EXCEPT ![x] = [Idle EXCEPT !.op = "OpenChannel", !.pc = "lock", !.chid = chid]]
            /\ Made(<< >>)
    /\ UNCHANGED <<t, gs, reqs, chanLocker>>

\* line 133: chanLocker.lock(channelID) blocks while another thread holds it
lock(x, chid) ==
    /\ ~Has(chanLocker, chid)
    /\ chanLocker' = Put(chanLocker, chid, x)

\* the release handle lock returns: unlocks and drops the entry
unlockChannel(x, chid) ==
    chanLocker' = IF Has(chanLocker, chid) /\ chanLocker[chid] = x THEN Del(chanLocker, chid) ELSE chanLocker

OpenChannelLock(x) ==
    /\ th[x].op = "OpenChannel" /\ th[x].pc = "lock"
    /\ lock(x, th[x].chid)
    /\ Goto(x, "locked")
    /\ Made(<< >>)
    /\ UNCHANGED <<t, gs, reqs>>

\* lines 155-170: the pending latch and the new cancel handle, under dataLock
RegisterPending(x) ==
    LET chid == th[x].chid
        h == Len(reqs) + 1
    IN  /\ reqs' = Append(reqs, cancelRequest(chid, th[x].ctx))
        /\ t' = [t EXCEPT !.pending = Put(@, chid, h), !.contextCancelMap = Put(@, chid, h)]
        /\ th' = [th EXCEPT ![x].pc = "request", ![x].h = h]

\* an OpenChannel that waits for the handle it found without cancelling it
OpenChannelLockedNoCancel(x) ==
    /\ th[x].op = "OpenChannel" /\ th[x].pc = "locked"
    /\ IF Has(t.contextCancelMap, th[x].chid)
       THEN /\ th' = [th EXCEPT ![x].pc = "wait", ![x].old = t.contextCancelMap[th[x].chid]]
            /\ Made(<< >>)
            /\ UNCHANGED <<t, reqs>>
       ELSE /\ RegisterPending(x)
            /\ Made(<< >>)
    /\ UNCHANGED <<gs, chanLocker>>

\* lines 136-144, or lines 136-170 when the channel has no cancel handle
OpenChannelLocked(x) ==
    /\ th[x].op = "OpenChannel" /\ th[x].pc = "locked"
    /\ IF Has(t.contextCancelMap, th[x].chid)
       THEN LET h == t.contextCancelMap[th[x].chid]
            IN  /\ reqs' = Cancel(reqs, {h})
                /\ th' = [th EXCEPT ![x].pc = "wait", ![x].old = h]
                /\ Made(<<Call("cancel", "cancel", th[x].chid, h, "-", "W")>>)
                /\ UNCHANGED t
       ELSE /\ RegisterPending(x)
            /\ Made(<< >>)
    /\ UNCHANGED <<gs, chanLocker>>

\* a wait whose outer select does not need the completed latch
waitForCancelCompleteNoLatch(pc, completed, ctxDone) ==
    IF pc = "wait"
    THEN {"minwait", "maxGSCancelWait"} \cup (IF ctxDone THEN {ErrCtx} ELSE {})
    ELSE {"minGSCancelWait"} \cup (IF ctxDone THEN {ErrCtx} ELSE {})

\* waitForCancelComplete: the outer select, then the inner one. A timer may
\* have elapsed whenever the select runs; ctx.Done() is ready once ctx is done.
waitForCancelComplete(pc, completed, ctxDone) ==
    IF pc = "wait"
    THEN (IF completed THEN {"minwait"} ELSE {}) \cup {"maxGSCancelWait"}
         \cup (IF ctxDone THEN {ErrCtx} ELSE {})
    ELSE {"minGSCancelWait"} \cup (IF ctxDone THEN {ErrCtx} ELSE {})

\* lines 146-149
OpenChannelWait(x) ==
    /\ th[x].op = "OpenChannel" /\ th[x].pc \in {"wait", "minwait"}
    /\ \E r \in waitForCancelComplete(th[x].pc, reqs[th[x].old].completed, th[x].ctx) :
         IF r = ErrCtx
         THEN /\ Finish(x)
              /\ unlockChannel(x, th[x].chid)
              /\ Made(<<Return(x, "OpenChannel", th[x].chid, ErrCtx)>>)
         ELSE /\ IF r = "minwait"
                 THEN Goto(x, "minwait")
                 ELSE th' = [th EXCEPT ![x].pc = "relock", ![x].wait = r]
              /\ Made(<< >>)
              /\ UNCHANGED chanLocker
    /\ UNCHANGED <<t, gs, reqs>>

\* lines 152-170
OpenChannelRelock(x) ==
    /\ th[x].op = "OpenChannel" /\ th[x].pc = "relock"
    /\ RegisterPending(x)
    /\ Made(<< >>)
    /\ UNCHANGED <<gs, chanLocker>>

\* lines 172-197: the do-not-send extension, gs.Request, the executor
OpenChannelRequest(x, doNotSendCids, encOk) ==
    /\ th[x].op = "OpenChannel" /\ th[x].pc = "request"
    /\ LET chid == th[x].chid
           h == th[x].h
           dataSender == IF chid.Initiator = Local THEN chid.Responder ELSE chid.Initiator
       IN  IF doNotSendCids /\ ~encOk
           THEN /\ Made(<<Return(x, "OpenChannel", chid, ErrOther)>>)
                /\ UNCHANGED reqs
           ELSE /\ reqs' = [reqs EXCEPT ![h].state = "running"]
                /\ Made(<<Engine(IF doNotSendCids THEN "Request+DoNotSendCIDs" ELSE "Request",
                                 chid, h, dataSender, "none"),
                          Return(x, "OpenChannel", chid, Nil)>>)
    /\ Finish(x)
    /\ unlockChannel(x, th[x].chid)
    /\ UNCHANGED <<t, gs>>

\* the caller's context is cancelled while its operation runs; the context
\* OpenChannel derived from it for the request is then done too
CtxCancel(x) ==
    /\ th[x].pc # "idle" /\ ~th[x].ctx
    /\ th' = [th EXCEPT ![x].ctx = TRUE]
    /\ reqs' = IF th[x].op = "OpenChannel" /\ th[x].pc = "request" THEN Cancel(reqs, {th[x].h}) ELSE reqs
    /\ Made(<< >>)
    /\ UNCHANGED <<t, gs, chanLocker>>

\* ------------------------------------------------------------------ the facade

AwaitOps == {"PauseChannel", "ResumeChannel", "CloseChannel"}

\* a message to resume with; 0 is no message
ResumeMsgs == 0..MaxDeferred

\* lines 315-317, 339-341, 369-371: the handler check
AwaitEnter(x, op, chid, msg) ==
    /\ th[x].pc = "idle"
    /\ op \in AwaitOps
    /\ msg = 0 \/ op = "ResumeChannel"
    /\ IF t.events = NoHandler
       THEN /\ Finish(x)
            /\ Made(<<Return(x, op, chid, ErrHandlerNotSet)>>)
       ELSE /\ th' = [th EXCEPT ![x] = [Idle EXCEPT !.op = op, !.pc = "await", !.chid = chid, !.msg = msg]]
            /\ Made(<< >>)
    /\ UNCHANGED <<t, gs, reqs, chanLocker>>

\* a gsKeyFromChannelID that does not look for a pending latch
gsKeyFromChannelIDNoLatch(x) ==
    /\ th[x].op \in AwaitOps /\ th[x].pc = "await"
    /\ LET chid == th[x].chid
       IN  IF Has(t.channelIDMap, chid)
           THEN /\ th' = [th EXCEPT ![x].pc = "act", ![x].key = t.channelIDMap[chid]]
                /\ Made(<< >>)
           ELSE /\ Finish(x)
                /\ Made(<<Return(x, th[x].op, chid, ErrChannelNotFound)>>)
    /\ UNCHANGED <<t, gs, reqs, chanLocker>>

\* gsKeyFromChannelID, one round of its loop: lines 292-302
gsKeyFromChannelID(x) ==
    /\ th[x].op \in AwaitOps /\ th[x].pc = "await"
    /\ LET chid == th[x].chid
       IN  IF Has(t.channelIDMap, chid)
           THEN /\ th' = [th EXCEPT ![x].pc = "act", ![x].key = t.channelIDMap[chid]]
                /\ Made(<< >>)
           ELSE IF ~Has(t.pending, chid)
           THEN /\ Finish(x)
                /\ Made(<<Return(x, th[x].op, chid, ErrChannelNotFound)>>)
           ELSE /\ th' = [th EXCEPT ![x].pc = "latchwait", ![x].h = t.pending[chid]]
                /\ Made(<< >>)
    /\ UNCHANGED <<t, gs, reqs, chanLocker>>

\* gsKeyFromChannelID, the select of lines 303-307
gsKeyFromChannelIDWait(x) ==
    /\ th[x].op \in AwaitOps /\ th[x].pc = "latchwait"
    /\ \/ /\ reqs[th[x].h].pendingClosed
          /\ Goto(x, "await")
          /\ Made(<< >>)
       \/ /\ th[x].ctx
          /\ Finish(x)
          /\ Made(<<Return(x, th[x].op, th[x].chid, ErrChannelNotFound)>>)
    /\ UNCHANGED <<t, gs, reqs, chanLocker>>

\* PauseChannel, lines 322-331
PauseChannel(x) ==
    /\ th[x].op = "PauseChannel" /\ th[x].pc = "act"
    /\ LET chid == th[x].chid
           gsKey == th[x].key
       IN  Made((IF gsKey.p = Local
                 THEN <<Engine("PauseRequest", chid, gsKey.requestID, gsKey.p, "none")>>
                 ELSE IF chid \in t.requestorCancelledMap
                 THEN << >>
                 ELSE <<Engine("PauseResponse", chid, gsKey.requestID, gsKey.p, "R")>>)
                \o <<Return(x, "PauseChannel", chid, Nil)>>)
    /\ Finish(x)
    /\ UNCHANGED <<t, gs, reqs, chanLocker>>

\* a ResumeChannel that puts the message before those already deferred
ResumeChannelPrepends(x, encOk) ==
    /\ th[x].op = "ResumeChannel" /\ th[x].pc = "act"
    /\ LET chid == th[x].chid
           gsKey == th[x].key
           extensions == IF th[x].msg = 0 THEN << >> ELSE ToExtensionData(th[x].msg)
           queued == IF Has(t.pendingExtensions, chid) THEN t.pendingExtensions[chid] ELSE << >>
       IN  IF th[x].msg # 0 /\ ~encOk
           THEN /\ Made(<<Return(x, "ResumeChannel", chid, ErrOther)>>)
                /\ UNCHANGED t
           ELSE IF gsKey.p = Local
           THEN /\ Made(<<Engine("UnpauseRequest", chid, gsKey.requestID, gsKey.p, "none"),
                          Return(x, "ResumeChannel", chid, Nil)>>)
                /\ UNCHANGED t
           ELSE IF chid \in t.requestorCancelledMap
           THEN /\ Len(queued) + Len(extensions) <= MaxDeferred * Len(supportedExtensions)
                /\ t' = [t EXCEPT !.pendingExtensions = Put(@, chid, extensions \o queued)]
                /\ Made(<<Return(x, "ResumeChannel", chid, Nil)>>)
           ELSE /\ t' = [t EXCEPT !.channelXferStarted = Put(@, chid, TRUE)]
                /\ Made(<<Engine("UnpauseResponse", chid, gsKey.requestID, gsKey.p, "W"),
                          Return(x, "ResumeChannel", chid, Nil)>>)
    /\ Finish(x)
    /\ UNCHANGED <<gs, reqs, chanLocker>>

\* ResumeChannel, lines 346-364
ResumeChannel(x, encOk) ==
    /\ th[x].op = "ResumeChannel" /\ th[x].pc = "act"
    /\ LET chid == th[x].chid
           gsKey == th[x].key
           extensions == IF th[x].msg = 0 THEN << >> ELSE ToExtensionData(th[x].msg)
           queued == IF Has(t.pendingExtensions, chid) THEN t.pendingExtensions[chid] ELSE << >>
       IN  IF th[x].msg # 0 /\ ~encOk
           THEN /\ Made(<<Return(x, "ResumeChannel", chid, ErrOther)>>)
                /\ UNCHANGED t
           ELSE IF gsKey.p = Local
           THEN /\ Made(<<Engine("UnpauseRequest", chid, gsKey.requestID, gsKey.p, "none"),
                          Return(x, "ResumeChannel", chid, Nil)>>)
                /\ UNCHANGED t
           ELSE IF chid \in t.requestorCancelledMap
           THEN /\ Len(queued) + Len(extensions) <= MaxDeferred * Len(supportedExtensions)
                /\ t' = [t EXCEPT !.pendingExtensions = Put(@, chid, queued \o extensions)]
                /\ Made(<<Return(x, "ResumeChannel", chid, Nil)>>)
           ELSE /\ t' = [t EXCEPT !.channelXferStarted = Put(@, chid, TRUE)]
                /\ Made(<<Engine("UnpauseResponse", chid, gsKey.requestID, gsKey.p, "W"),
                          Return(x, "ResumeChannel", chid, Nil)>>)
    /\ Finish(x)
    /\ UNCHANGED <<gs, reqs, chanLocker>>

\* a CloseChannel that cancels the response although the requestor has
\* cancelled
CloseChannelIgnoresFlag(x) ==
    /\ th[x].op = "CloseChannel" /\ th[x].pc = "act"
    /\ LET chid == th[x].chid
           gsKey == th[x].key
       IN  IF gsKey.p = Local
           THEN IF ~Has(t.contextCancelMap, chid)
                THEN /\ Made(<<Return(x, "CloseChannel", chid, ErrChannelNotFound)>>)
                     /\ UNCHANGED reqs
                ELSE /\ reqs' = Cancel(reqs, {t.contextCancelMap[chid]})
                     /\ Made(<<Call("cancel", "cancel", chid, t.contextCancelMap[chid], "-", "none"),
                               Return(x, "CloseChannel", chid, Nil)>>)
           ELSE /\ Made(<<Engine("CancelResponse", chid, gsKey.requestID, gsKey.p, "none"),
                          Return(x, "CloseChannel", chid, Nil)>>)
                /\ UNCHANGED reqs
    /\ Finish(x)
    /\ UNCHANGED <<t, gs, chanLocker>>

\* CloseChannel, lines 376-392
CloseChannel(x) ==
    /\ th[x].op = "CloseChannel" /\ th[x].pc = "act"
    /\ LET chid == th[x].chid
           gsKey == th[x].key
       IN  IF gsKey.p = Local
           THEN IF ~Has(t.contextCancelMap, chid)
                THEN /\ Made(<<Return(x, "CloseChannel", chid, ErrChannelNotFound)>>)
                     /\ UNCHANGED reqs
                ELSE /\ reqs' = Cancel(reqs, {t.contextCancelMap[chid]})
                     /\ Made(<<Call("cancel", "cancel", chid, t.contextCancelMap[chid], "-", "none"),
                               Return(x, "CloseChannel", chid, Nil)>>)
           ELSE /\ Made((IF chid \in t.requestorCancelledMap
                         THEN << >>
                         ELSE <<Engine("CancelResponse", chid, gsKey.requestID, gsKey.p, "none")>>)
                        \o <<Return(x, "CloseChannel", chid, Nil)>>)
                /\ UNCHANGED reqs
    /\ Finish(x)
    /\ UNCHANGED <<t, gs, chanLocker>>

\* a cleanupChannel that keeps the channel's key and its store flag
cleanupChannelKeepsStore(tt, chid, gsKey) ==
    [tt EXCEPT !.contextCancelMap = Del(@, chid),
               !.pending = Del(@, chid),
               !.pendingExtensions = Del(@, chid),
               !.requestorCancelledMap = @ \ {chid},
               !.channelXferStarted = Del(@, chid)]

\* cleanupChannel, the registry part: lines 725-731 and 740
cleanupChannel(tt, chid, gsKey) ==
    [tt EXCEPT !.channelIDMap = Del(@, chid),
               !.contextCancelMap = Del(@, chid),
               !.pending = Del(@, chid),
               !.graphsyncRequestMap = Del(@, gsKey),
               !.pendingExtensions = Del(@, chid),
               !.requestorCancelledMap = @ \ {chid},
               !.channelXferStarted = Del(@, chid),
               !.stores = @ \ {chid}]

\* CleanupChannel as a function of the transport and the engine: what they
\* are afterwards and the calls made. unregOk: the engine unregisters the
\* option (lines 732-739 log a failure and go on).
CleanupChannelOp(tt, g, chid, unregOk) ==
    IF Has(tt.channelIDMap, chid)
    THEN [t |-> cleanupChannel(tt, chid, tt.channelIDMap[chid]),
          gs |-> IF chid \in tt.stores /\ unregOk THEN [g EXCEPT !.options = @ \ {chid}] ELSE g,
          calls |-> IF chid \in tt.stores
                    THEN <<Engine("UnregisterPersistenceOption", chid, 0, "-", "W")>>
                    ELSE << >>]
    ELSE [t |-> tt, gs |-> g, calls |-> << >>]

\* CleanupChannel, lines 397-404
CleanupChannel(chid, unregOk) ==
    LET r == CleanupChannelOp(t, gs, chid, unregOk)
    IN  /\ t' = r.t
        /\ gs' = r.gs
        /\ Made(r.calls \o <<Return("-", "CleanupChannel", chid, Nil)>>)
        /\ UNCHANGED <<reqs, th, chanLocker>>

\* SetEventHandler, lines 407-425. events is the handler the caller passes,
\* which Go lets be nil.
SetEventHandler(events) ==
    /\ IF t.events # NoHandler
       THEN /\ Made(<<Return("-", "SetEventHandler", NoChan, ErrHandlerAlreadySet)>>)
            /\ UNCHANGED <<t, gs>>
       ELSE /\ t' = [t EXCEPT !.events = events, !.unregisterFuncs = @ \cup AllHooks]
            /\ gs' = [gs EXCEPT !.hooks = @ \cup AllHooks]
            /\ Made(<<Return("-", "SetEventHandler", NoChan, Nil)>>)
    /\ UNCHANGED <<reqs, th, chanLocker>>

\* cancelRQ.cancel() for each handle of hs
CancelCalls(hs, held) ==
    LET ord == SelectSeq([i \in 1..Len(reqs) |-> i], LAMBDA i : i \in hs)
    IN  [j \in 1..Len(ord) |-> Call("cancel", "cancel", reqs[ord[j]].chid, ord[j], "-", held)]

\* Shutdown, lines 428-438
Shutdown ==
    /\ gs' = [gs EXCEPT !.hooks = @ \ t.unregisterFuncs]
    /\ reqs' = Cancel(reqs, Range(t.contextCancelMap))
    /\ Made(CancelCalls(Range(t.contextCancelMap), "R") \o <<Return("-", "Shutdown", NoChan, Nil)>>)
    /\ UNCHANGED <<t, th, chanLocker>>

\* a UseStore that does not look at the store flag
UseStoreAgain(chid, regOk) ==
    /\ IF ~regOk
       THEN /\ Made(<<Engine("RegisterPersistenceOption", chid, 0, "-", "W"),
                      Return("-", "UseStore", chid, ErrOther)>>)
            /\ UNCHANGED <<t, gs>>
       ELSE /\ t' = [t EXCEPT !.stores = @ \cup {chid}]
            /\ gs' = [gs EXCEPT !.options = @ \cup {chid}]
            /\ Made(<<Engine("RegisterPersistenceOption", chid, 0, "-", "W"),
                      Return("-", "UseStore", chid, Nil)>>)
    /\ UNCHANGED <<reqs, th, chanLocker>>

\* UseStore, lines 441-454. regOk: the engine registers the option.
UseStore(chid, regOk) ==
    /\ IF chid \in t.stores
       THEN /\ Made(<<Return("-", "UseStore", chid, Nil)>>)
            /\ UNCHANGED <<t, gs>>
       ELSE IF ~regOk
       THEN /\ Made(<<Engine("RegisterPersistenceOption", chid, 0, "-", "W"),
                      Return("-", "UseStore", chid, ErrOther)>>)
            /\ UNCHANGED <<t, gs>>
       ELSE /\ t' = [t EXCEPT !.stores = @ \cup {chid}]
            /\ gs' = [gs EXCEPT !.options = @ \cup {chid}]
            /\ Made(<<Engine("RegisterPersistenceOption", chid, 0, "-", "W"),
                      Return("-", "UseStore", chid, Nil)>>)
    /\ UNCHANGED <<reqs, th, chanLocker>>

\* ------------------------------------------------------------------ the executor

\* an executor that looks at internalCtx before it looks at the last error
executeGsRequestCtxFirst(chid, lastError, ctxErr) ==
    IF ctxErr
    THEN << >>
    ELSE IF lastError = RequestContextCancelledErr
    THEN <<EventErr("OnRequestTimedOut", chid, ErrOther, "none")>>
    ELSE IF lastError = RequestCancelledErr
    THEN << >>
    ELSE <<EventErr("OnChannelCompleted", chid, IF lastError # Nil THEN ErrOther ELSE Nil, "none")>>

\* an executor that does not look at internalCtx
executeGsRequestNoCtxCheck(chid, lastError, ctxErr) ==
    IF lastError = RequestContextCancelledErr
    THEN <<EventErr("OnRequestTimedOut", chid, ErrOther, "none")>>
    ELSE IF lastError = RequestCancelledErr
    THEN << >>
    ELSE <<EventErr("OnChannelCompleted", chid, IF lastError # Nil THEN ErrOther ELSE Nil, "none")>>

\* executeGsRequest, lines 244-287: the events fired for the last error of
\* the drained streams. ctxErr: internalCtx.Err() != nil.
executeGsRequest(chid, lastError, ctxErr) ==
    IF lastError = RequestContextCancelledErr
    THEN <<EventErr("OnRequestTimedOut", chid, ErrOther, "none")>>
    ELSE IF lastError = RequestCancelledErr
    THEN << >>
    ELSE IF ctxErr
    THEN << >>
    ELSE <<EventErr("OnChannelCompleted", chid, IF lastError # Nil THEN ErrOther ELSE Nil, "none")>>

\* the engine closes the streams of request h; the executor classifies
ExecuteGsRequest(h, lastError) ==
    /\ reqs[h].state = "running"
    /\ LET cs == executeGsRequest(reqs[h].chid, lastError, reqs[h].cancelled)
       IN  /\ reqs' = [reqs EXCEPT ![h].state = "fired", ![h].lastError = lastError]
           /\ Made(cs)
    /\ UNCHANGED <<t, gs, th, chanLocker>>

\* the deferred onComplete of line 242: close(cancelRQ.completed), line 195
onComplete(h) ==
    /\ reqs[h].state = "fired"
    /\ reqs' = [reqs EXCEPT ![h].state = "done", ![h].completed = TRUE, ![h].lastError = "-"]
    /\ Made(<< >>)
    /\ UNCHANGED <<t, gs, th, chanLocker>>

\* ------------------------------------------------------------------ the hooks

Hook(name) == name \in gs.hooks

\* the peer a channel's data comes from, whom OpenChannel sends the request to
OtherParty(chid) == IF chid.Initiator = Local THEN chid.Responder ELSE chid.Initiator

\* lines 464-473 and 589-600: the channel of a message on a request that goes
\* out to p (outgoing) or comes in from p
ChannelIDOf(msg, p, outgoing) ==
    IF IsRequest(msg) = outgoing
    THEN [Initiator |-> Local, Responder |-> p, ID |-> msg.TransferID]
    ELSE [Initiator |-> p, Responder |-> Local, ID |-> msg.TransferID]

\* a hook that leaves the pending latch in place
assignKeyKeepsLatch(tt, chid, gsKey, err) ==
    IF err = Nil
    THEN [tt EXCEPT !.graphsyncRequestMap = Put(@, gsKey, chid),
                    !.channelIDMap = Put(@, chid, gsKey)]
    ELSE tt

\* lines 475-485: the registry after OnChannelOpened returned err
assignKey(tt, chid, gsKey, err) ==
    LET m == IF err = Nil
             THEN [tt EXCEPT !.graphsyncRequestMap = Put(@, gsKey, chid),
                             !.channelIDMap = Put(@, chid, gsKey)]
             ELSE tt
    IN  [m EXCEPT !.pending = Del(@, chid)]

\* gsOutgoingRequestHook for the request of handle h, lines 456-491
gsOutgoingRequestHook(h, err) ==
    /\ Hook("OutgoingRequestHook")
    /\ h \in 1..Len(reqs) /\ reqs[h].state # "created" /\ ~reqs[h].hooked
    /\ LET p == OtherParty(reqs[h].chid)
           chid == ChannelIDOf(MsgFor(reqs[h].chid), p, TRUE)
       IN  /\ t' = assignKey(t, chid, graphsyncKey(h, Local), err)
           /\ reqs' = [i \in 1..Len(reqs) |->
                         [reqs[i] EXCEPT !.hooked = @ \/ i = h,
                                         !.pendingClosed = @ \/ (Has(t.pending, chid) /\ t.pending[chid] = i)]]
           /\ Made(<<EventErr("OnChannelOpened", chid, err, "none")>>
                   \o (IF chid \in t.stores THEN <<Action("UsePersistenceOption", "W")>> ELSE << >>))
    /\ UNCHANGED <<gs, th, chanLocker>>

\* gsOutgoingRequestHook for a request without our extension, lines 457-462
gsOutgoingRequestHookNotOurs ==
    /\ Hook("OutgoingRequestHook")
    /\ Made(<< >>)
    /\ UNCHANGED <<t, gs, reqs, th, chanLocker>>

\* a hook that takes the pause sentinel for an error
blockActionsNoSentinel(err) ==
    IF err # Nil THEN <<Action("TerminateWithError", "none")>> ELSE << >>

\* lines 502-510: what the incoming-block hook does with OnDataReceived's result
blockActions(err) ==
    IF err # Nil /\ err # ErrPause
    THEN <<Action("TerminateWithError", "none")>>
    ELSE IF err = ErrPause THEN <<Action("PauseRequest", "none")>> ELSE << >>

\* a hook that looks the request up as one a remote peer made
incomingBlockOfPeer(tt, id, err) ==
    LET gsKey == graphsyncKey(id, CHOOSE p \in Remotes : TRUE)
    IN  IF ~Has(tt.graphsyncRequestMap, gsKey)
        THEN << >>
        ELSE <<EventErr("OnDataReceived", tt.graphsyncRequestMap[gsKey], err, "none")>> \o blockActions(err)

\* lines 494-502: the request is looked up as one this node made
incomingBlock(tt, id, err) ==
    LET gsKey == graphsyncKey(id, Local)
    IN  IF ~Has(tt.graphsyncRequestMap, gsKey)
        THEN << >>
        ELSE <<EventErr("OnDataReceived", tt.graphsyncRequestMap[gsKey], err, "none")>> \o blockActions(err)

\* gsIncomingBlockHook, lines 493-511
gsIncomingBlockHook(id, err) ==
    /\ Hook("IncomingBlockHook")
    /\ Made(incomingBlock(t, id, err))
    /\ UNCHANGED <<t, gs, reqs, th, chanLocker>>

\* a listener that does not look at the size on the wire
blockSentAnySize(tt, gsKey, sizeOnWire) ==
    IF ~Has(tt.graphsyncRequestMap, gsKey)
    THEN << >>
    ELSE <<Event("OnDataSent", tt.graphsyncRequestMap[gsKey], "none")>>

\* lines 519-532: the events of the block-sent listener
blockSent(tt, gsKey, sizeOnWire) ==
    IF sizeOnWire = 0
    THEN << >>
    ELSE IF ~Has(tt.graphsyncRequestMap, gsKey)
    THEN << >>
    ELSE <<Event("OnDataSent", tt.graphsyncRequestMap[gsKey], "none")>>

\* gsBlockSentHook, lines 513-533
gsBlockSentHook(p, id, sizeOnWire) ==
    /\ Hook("BlockSentListener")
    /\ Made(blockSent(t, graphsyncKey(id, p), sizeOnWire))
    /\ UNCHANGED <<t, gs, reqs, th, chanLocker>>

\* lines 541-571: the calls of the outgoing-block hook. err, msg: what
\* OnDataQueued returns; encOk: msg serializes.
outgoingBlock(tt, gsKey, sizeOnWire, err, msg, encOk) ==
    IF sizeOnWire = 0
    THEN << >>
    ELSE IF ~Has(tt.graphsyncRequestMap, gsKey)
    THEN << >>
    ELSE <<EventErr("OnDataQueued", tt.graphsyncRequestMap[gsKey], err, "none")>>
         \o (IF err # Nil /\ err # ErrPause
             THEN <<Action("TerminateWithError", "none")>>
             ELSE (IF err = ErrPause THEN <<Action("PauseResponse", "none")>> ELSE << >>)
                  \o (IF msg = 0
                      THEN << >>
                      ELSE IF ~encOk
                      THEN <<Action("TerminateWithError", "none")>>
                      ELSE Send("SendExtensionData", ToExtensionData(msg), "none")))

\* what OnDataQueued returns: a message (0: none) and nil, the pause sentinel
\* or an error; encOk: the message serializes
QueuedResults == {r \in [msg : 0..1, err : CallbackErrs, encOk : BOOLEAN] : r.msg # 0 \/ r.encOk}

\* gsOutgoingBlockHook, lines 535-572
gsOutgoingBlockHook(p, id, sizeOnWire, err, msg, encOk) ==
    /\ Hook("OutgoingBlockHook")
    /\ Made(outgoingBlock(t, graphsyncKey(id, p), sizeOnWire, err, msg, encOk))
    /\ UNCHANGED <<t, gs, reqs, th, chanLocker>>

\* what the session returns to the incoming-request hook: a response message
\* (0: none) and nil, the pause sentinel or an error
SessionResults == {r \in [resp : 0..1, err : CallbackErrs, encOk : BOOLEAN] : r.resp # 0 \/ r.encOk}

\* a hook that clears the requestor-cancelled flag and keeps the deferred list
recordRequestKeepsDeferred(tt, chid, gsKey, paused) ==
    [tt EXCEPT !.channelXferStarted = Put(@, chid, ~paused),
               !.requestorCancelledMap = @ \ {chid},
               !.graphsyncRequestMap = Put(@, gsKey, chid),
               !.channelIDMap = Put(@, chid, gsKey)]

\* a hook that marks the transfer started whether or not it paused
recordRequestStarted(tt, chid, gsKey, paused) ==
    [tt EXCEPT !.channelXferStarted = Put(@, chid, TRUE),
               !.requestorCancelledMap = @ \ {chid},
               !.pendingExtensions = IF chid \in tt.requestorCancelledMap THEN Del(@, chid) ELSE @,
               !.graphsyncRequestMap = Put(@, gsKey, chid),
               !.channelIDMap = Put(@, chid, gsKey)]

\* lines 632-661: the registry after the incoming-request hook's critical
\* section for a request that was not terminated
recordRequest(tt, chid, gsKey, paused) ==
    [tt EXCEPT !.channelXferStarted = Put(@, chid, ~paused),
               !.requestorCancelledMap = @ \ {chid},
               !.pendingExtensions = IF chid \in tt.requestorCancelledMap THEN Del(@, chid) ELSE @,
               !.graphsyncRequestMap = Put(@, gsKey, chid),
               !.channelIDMap = Put(@, chid, gsKey)]

\* gsReqRecdHook, lines 576-664
gsReqRecdHook(p, id, msg, r) ==
    /\ Hook("IncomingRequestHook")
    /\ IF msg = Malformed
       THEN /\ Made(<<Action("TerminateWithError", "none")>>)
            /\ UNCHANGED t
       ELSE IF msg = NoMsg
       THEN /\ Made(<< >>)
            /\ UNCHANGED t
       ELSE
         LET chid == ChannelIDOf(msg, p, FALSE)
             responseMessage == IF IsRequest(msg) THEN r.resp ELSE 0
             received == <<Event(IF IsRequest(msg) THEN "OnRequestReceived" ELSE "OnResponseReceived",
                                 chid, "none")>>
             sent == IF responseMessage # 0
                     THEN Send("SendExtensionData", ToExtensionData(responseMessage), "none")
                     ELSE << >>
             sessionPaused == r.err = ErrPause
             isRestart == Has(t.channelXferStarted, chid)
             paused == sessionPaused \/ (isRestart /\ ~t.channelXferStarted[chid])
             deferred == IF chid \in t.requestorCancelledMap /\ Has(t.pendingExtensions, chid)
                         THEN t.pendingExtensions[chid]
                         ELSE << >>
         IN  IF responseMessage # 0 /\ ~r.encOk
             THEN /\ Made(received \o <<Action("TerminateWithError", "none")>>)
                  /\ UNCHANGED t
             ELSE IF r.err # Nil /\ r.err # ErrPause
             THEN /\ Made(received \o sent \o <<Action("TerminateWithError", "none")>>)
                  /\ UNCHANGED t
             ELSE /\ t' = recordRequest(t, chid, graphsyncKey(id, p), paused)
                  /\ Made(received \o sent
                          \o (IF sessionPaused THEN <<Action("PauseResponse", "none")>> ELSE << >>)
                          \o (IF paused /\ ~sessionPaused THEN <<Action("PauseResponse", "W")>> ELSE << >>)
                          \o Send("SendExtensionData", deferred, "W")
                          \o (IF chid \in t.stores THEN <<Action("UsePersistenceOption", "W")>> ELSE << >>)
                          \o <<Action("ValidateRequest", "none")>>)
    /\ UNCHANGED <<gs, reqs, th, chanLocker>>

\* a listener that reports a cancelled response as a failed one
completedResponseOnCancel(chid, status) ==
    <<EventErr("OnChannelCompleted", chid,
               IF status # RequestCompletedFull THEN ErrOther ELSE Nil, "none")>>

\* lines 677-695: the event of the completed-response listener
completedResponse(chid, status) ==
    IF status = RequestCancelled
    THEN << >>
    ELSE <<EventErr("OnChannelCompleted", chid,
                    IF status # RequestCompletedFull THEN ErrOther ELSE Nil, "none")>>

\* gsCompletedResponseListener, lines 668-696
gsCompletedResponseListener(p, id, status) ==
    /\ Hook("CompletedResponseListener")
    /\ LET gsKey == graphsyncKey(id, p)
       IN  IF ~Has(t.graphsyncRequestMap, gsKey)
           THEN Made(<< >>)
           ELSE Made(completedResponse(t.graphsyncRequestMap[gsKey], status))
    /\ UNCHANGED <<t, gs, reqs, th, chanLocker>>

\* a processExtension that refuses a request when the remote peer is the
\* channel's initiator and takes it otherwise
processExtensionRefusesInitiator(chid, msg, p, r) ==
    IF msg = Malformed
    THEN [calls |-> << >>, resp |-> 0, err |-> ErrOther]
    ELSE IF msg = NoMsg
    THEN [calls |-> << >>, resp |-> 0, err |-> Nil]
    ELSE IF IsRequest(msg)
    THEN IF chid = [Initiator |-> p, Responder |-> Local, ID |-> msg.TransferID]
         THEN [calls |-> << >>, resp |-> 0, err |-> ErrOther]
         ELSE [calls |-> <<Event("OnRequestReceived", chid, "none")>>, resp |-> r.resp, err |-> r.err]
    ELSE IF chid # [Initiator |-> Local, Responder |-> p, ID |-> msg.TransferID]
         THEN [calls |-> << >>, resp |-> 0, err |-> ErrOther]
         ELSE [calls |-> <<Event("OnResponseReceived", chid, "none")>>, resp |-> 0, err |-> r.err]

\* a processExtension that does not compare the channel with the payload
processExtensionAnyChannel(chid, msg, p, r) ==
    IF msg = Malformed
    THEN [calls |-> << >>, resp |-> 0, err |-> ErrOther]
    ELSE IF msg = NoMsg
    THEN [calls |-> << >>, resp |-> 0, err |-> Nil]
    ELSE IF IsRequest(msg)
    THEN [calls |-> <<Event("OnRequestReceived", chid, "none")>>, resp |-> r.resp, err |-> r.err]
    ELSE [calls |-> <<Event("OnResponseReceived", chid, "none")>>, resp |-> 0, err |-> r.err]

\* processExtension, lines 800-834: the session event it fires, the response
\* message (0: none) and the error it returns
processExtension(chid, msg, p, r) ==
    IF msg = Malformed
    THEN [calls |-> << >>, resp |-> 0, err |-> ErrOther]
    ELSE IF msg = NoMsg
    THEN [calls |-> << >>, resp |-> 0, err |-> Nil]
    ELSE IF IsRequest(msg)
    THEN IF chid # [Initiator |-> p, Responder |-> Local, ID |-> msg.TransferID]
         THEN [calls |-> << >>, resp |-> 0, err |-> ErrOther]
         ELSE [calls |-> <<Event("OnRequestReceived", chid, "none")>>, resp |-> r.resp, err |-> r.err]
    ELSE IF chid # [Initiator |-> Local, Responder |-> p, ID |-> msg.TransferID]
         THEN [calls |-> << >>, resp |-> 0, err |-> ErrOther]
         ELSE [calls |-> <<Event("OnResponseReceived", chid, "none")>>, resp |-> 0, err |-> r.err]

\* lines 752-767 and 782-797: the hook actions after processExtension.
\* send: the action that carries an extension; pauseEnds: whether the pause
\* sentinel terminates the request
extensionActions(x, r, send, pauseEnds) ==
    x.calls
    \o (IF x.resp # 0 /\ ~r.encOk
        THEN <<Action("TerminateWithError", "none")>>
        ELSE (IF x.resp # 0 THEN Send(send, ToExtensionData(x.resp), "none") ELSE << >>)
             \o (IF x.err # Nil /\ (pauseEnds \/ x.err # ErrPause)
                 THEN <<Action("TerminateWithError", "none")>>
                 ELSE << >>))

\* gsRequestUpdatedHook, lines 743-769
gsRequestUpdatedHook(p, id, update, r) ==
    /\ Hook("RequestUpdatedHook")
    /\ LET gsKey == graphsyncKey(id, p)
       IN  IF ~Has(t.graphsyncRequestMap, gsKey)
           THEN Made(<< >>)
           ELSE Made(extensionActions(processExtension(t.graphsyncRequestMap[gsKey], update, p, r),
                                      r, "SendExtensionData", FALSE))
    /\ UNCHANGED <<t, gs, reqs, th, chanLocker>>

\* gsIncomingResponseHook, lines 772-798
gsIncomingResponseHook(p, id, response, r) ==
    /\ Hook("IncomingResponseHook")
    /\ LET gsKey == graphsyncKey(id, Local)
       IN  IF ~Has(t.graphsyncRequestMap, gsKey)
           THEN Made(<< >>)
           ELSE Made(extensionActions(processExtension(t.graphsyncRequestMap[gsKey], response, p, r),
                                      r, "UpdateRequestWithExtensions", TRUE))
    /\ UNCHANGED <<t, gs, reqs, th, chanLocker>>

\* gsRequestorCancelledListener, lines 836-844
gsRequestorCancelledListener(p, id) ==
    /\ Hook("RequestorCancelledListener")
    /\ LET gsKey == graphsyncKey(id, p)
       IN  t' = IF Has(t.graphsyncRequestMap, gsKey)
                THEN [t EXCEPT !.requestorCancelledMap = @ \cup {t.graphsyncRequestMap[gsKey]}]
                ELSE t
    /\ Made(<< >>)
    /\ UNCHANGED <<gs, reqs, th, chanLocker>>

\* a listener that falls back on the channel whose cancel handle carries the
\* request's number
sendErrorOfHandle(tt, id, p) ==
    IF Has(tt.graphsyncRequestMap, graphsyncKey(id, p))
    THEN <<Event("OnSendDataError", tt.graphsyncRequestMap[graphsyncKey(id, p)], "W")>>
    ELSE [i \in 1..Cardinality({c \in DOMAIN tt.contextCancelMap : tt.contextCancelMap[c] = id}) |->
            Event("OnSendDataError", CHOOSE c \in DOMAIN tt.contextCancelMap : tt.contextCancelMap[c] = id, "W")]

\* lines 852-863: the event of the send-error listener
sendError(tt, id, p) ==
    IF Has(tt.graphsyncRequestMap, graphsyncKey(id, p))
    THEN <<Event("OnSendDataError", tt.graphsyncRequestMap[graphsyncKey(id, p)], "W")>>
    ELSE IF Has(tt.graphsyncRequestMap, graphsyncKey(id, Local))
    THEN <<Event("OnSendDataError", tt.graphsyncRequestMap[graphsyncKey(id, Local)], "W")>>
    ELSE << >>

\* gsNetworkSendErrorListener, lines 847-864
gsNetworkSendErrorListener(p, id) ==
    /\ Hook("NetworkErrorListener")
    /\ Made(sendError(t, id, p))
    /\ UNCHANGED <<t, gs, reqs, th, chanLocker>>

\* the keys of a map in some order: Go iterates a map in no fixed order
RECURSIVE Orders(_)
Orders(S) == IF S = {} THEN {<< >>} ELSE UNION {{<<k>> \o o : o \in Orders(S \ {k})} : k \in S}

\* lines 873-882: the events of the receive-error listener, for the keys in
\* the order the map yields them
receiveError(tt, p, keys) ==
    LET hit == SelectSeq(keys, LAMBDA k : tt.graphsyncRequestMap[k].Initiator = p
                                          \/ tt.graphsyncRequestMap[k].Responder = p)
    IN  [i \in 1..Len(hit) |-> Event("OnReceiveDataError", tt.graphsyncRequestMap[hit[i]], "W")]

\* gsNetworkReceiveErrorListener, lines 867-883
gsNetworkReceiveErrorListener(p) ==
    /\ Hook("ReceiverNetworkErrorListener")
    /\ \E keys \in Orders(DOMAIN t.graphsyncRequestMap) : Made(receiveError(t, p, keys))
    /\ UNCHANGED <<t, gs, reqs, th, chanLocker>>

\* ------------------------------------------------------------------ the restart coordinator

\* what message.NewRequest, the voucher validator and the messaging layer
\* return when they fail
ErrNewRequest == "ErrNewRequest"
ErrVoucher == "ErrVoucher"
ErrSendMessage == "ErrSendMessage"

\* channels a remote peer opened: the ones the manager restarts as
\* peer-received push or pull
ReceivedChannels == {c \in ChannelIDs : c.Initiator \in Remotes}

\* One call of the manager: message.NewRequest, validateVoucher,
\* message.RestartRequest, Protect or SendMessage. what is Pull or Push for
\* the flag isPull, the message sent or "-"; res is the error the call returns.
Manager(name, chid, what, res) == Call("manager", name, chid, 0, res, what)

\* the isPull flag of message.NewRequest and validateVoucher
Pull == "isPull"
Push == "not isPull"

\* a validateRestartVoucher that does not look at the validator's answer
validateRestartVoucherUnchecked(chid, isPull, reqErr, valErr) ==
    IF reqErr # Nil
    THEN [calls |-> <<Manager("NewRequest", chid, isPull, reqErr)>>, err |-> reqErr]
    ELSE [calls |-> <<Manager("NewRequest", chid, isPull, Nil),
                      Manager("validateVoucher", chid, isPull, valErr)>>,
          err |-> Nil]

\* validateRestartVoucher, restart.go lines 50-67: the calls it makes and the
\* error it returns. reqErr, valErr: what NewRequest and the validator return.
validateRestartVoucher(chid, isPull, reqErr, valErr) ==
    IF reqErr # Nil
    THEN [calls |-> <<Manager("NewRequest", chid, isPull, reqErr)>>, err |-> reqErr]
    ELSE [calls |-> <<Manager("NewRequest", chid, isPull, Nil),
                      Manager("validateVoucher", chid, isPull, valErr)>>,
          err |-> valErr]

\* restart.go lines 28-37 and 39-48: a peer-received restart: the
\* revalidation, then the restart request unless the revalidation failed
restartManagerPeerReceive(op, chid, isPull, reqErr, valErr, sendErr) ==
    LET v == validateRestartVoucher(chid, isPull, reqErr, valErr)
    IN  /\ Made(v.calls \o
                (IF v.err # Nil
                 THEN <<Return("-", op, chid, v.err)>>
                 ELSE <<Manager("RestartRequest", chid, "-", Nil),
                        Manager("SendMessage", chid, "RestartRequest", sendErr),
                        Return("-", op, chid, sendErr)>>))
        /\ UNCHANGED <<t, gs, reqs, th, chanLocker>>

\* restartManagerPeerReceivePush, restart.go lines 28-37
restartManagerPeerReceivePush(chid, reqErr, valErr, sendErr) ==
    restartManagerPeerReceive("restartManagerPeerReceivePush", chid, Push,
                              reqErr, valErr, sendErr)

\* restartManagerPeerReceivePull, restart.go lines 39-48
restartManagerPeerReceivePull(chid, reqErr, valErr, sendErr) ==
    restartManagerPeerReceive("restartManagerPeerReceivePull", chid, Pull,
                              reqErr, valErr, sendErr)

\* openPushRestartChannel, restart.go lines 69-94. has: a transport
\* configurer is registered for the voucher type.
openPushRestartChannel(chid, reqErr, has, sendErr) ==
    /\ Made(IF reqErr # Nil
            THEN <<Manager("NewRequest", chid, Push, reqErr),
                   Return("-", "openPushRestartChannel", chid, reqErr)>>
            ELSE <<Manager("NewRequest", chid, Push, Nil)>>
                 \o (IF has THEN <<Manager("transportConfigurer", chid, "-", Nil)>> ELSE << >>)
                 \o <<Manager("Protect", chid, "-", Nil),
                      Manager("SendMessage", chid, "Request", sendErr)>>
                 \o (IF sendErr # Nil THEN <<Manager("Error", chid, "-", sendErr)>> ELSE << >>)
                 \o <<Return("-", "openPushRestartChannel", chid, sendErr)>>)
    /\ UNCHANGED <<t, gs, reqs, th, chanLocker>>

\* ------------------------------------------------------------------ the system

\* OpenChannel on thread x
Open(x) ==
    \/ \E chid \in ChannelIDs, ok \in BOOLEAN : OpenChannelEnter(x, chid, ok)
    \/ OpenChannelLock(x)
    \/ OpenChannelLocked(x)
    \/ OpenChannelWait(x)
    \/ OpenChannelRelock(x)
    \/ \E dns \in BOOLEAN, ok \in BOOLEAN : OpenChannelRequest(x, dns, ok)

\* the operations that await the engine key, on thread x
Await(x) ==
    \/ \E op \in AwaitOps, chid \in ChannelIDs, msg \in ResumeMsgs : AwaitEnter(x, op, chid, msg)
    \/ gsKeyFromChannelID(x)
    \/ gsKeyFromChannelIDWait(x)
    \/ PauseChannel(x)
    \/ \E ok \in BOOLEAN : ResumeChannel(x, ok)
    \/ CloseChannel(x)

\* the request executor
Executor ==
    \/ \E h \in 1..Len(reqs), e \in LastErrors : ExecuteGsRequest(h, e)
    \/ \E h \in 1..Len(reqs) : onComplete(h)

\* OpenChannel on thread x with a message that serializes and no do-not-send list
OpenPlain(x) ==
    \/ \E chid \in ChannelIDs : OpenChannelEnter(x, chid, TRUE)
    \/ OpenChannelLock(x)
    \/ OpenChannelLocked(x)
    \/ OpenChannelWait(x)
    \/ OpenChannelRelock(x)
    \/ OpenChannelRequest(x, FALSE, TRUE)

\* CloseChannel on thread x
Close(x) ==
    \/ \E chid \in ChannelIDs : AwaitEnter(x, "CloseChannel", chid, 0)
    \/ gsKeyFromChannelID(x)
    \/ gsKeyFromChannelIDWait(x)
    \/ CloseChannel(x)

\* the data-transfer request a remote peer sends with its engine request
PullRequest == [kind |-> "request", TransferID |-> 1]

\* an incoming request the session accepts
Accepted == [resp |-> 0, err |-> Nil, encOk |-> TRUE]

\* The requesting side of the registry: channels opened and reopened from one
\* thread, the executor, the outgoing-request hook, cleanup and shutdown.
Next ==
    \/ SetEventHandler(Session)
    \/ Shutdown
    \/ \E chid \in ChannelIDs : CleanupChannel(chid, TRUE)
    \/ Open(Main)
    \/ Executor
    \/ \E h \in 1..Len(reqs), e \in {Nil, ErrOther} : gsOutgoingRequestHook(h, e)

Spec == Init /\ [][Next]_vars

\* The registry with both ways a channel gets its key: requests opened from
\* one thread and incoming requests, with stores and cleanup.
CleanupNext ==
    \/ SetEventHandler(Session)
    \/ \E chid \in ChannelIDs : UseStore(chid, TRUE)
    \/ \E chid \in ChannelIDs, ok \in BOOLEAN : CleanupChannel(chid, ok)
    \/ OpenPlain(Main)
    \/ \E h \in 1..Len(reqs), e \in {Nil, ErrOther} : gsOutgoingRequestHook(h, e)
    \/ \E p \in Remotes, id \in ReqIDs, msg \in Messages : gsReqRecdHook(p, id, msg, Accepted)

CleanupSpec == Init /\ [][CleanupNext]_vars

\* The executor and what ends a request: the engine, CloseChannel, a
\* restart, Shutdown.
ExecNext ==
    \/ SetEventHandler(Session)
    \/ Shutdown
    \/ Open(Main)
    \/ Close(Main)
    \/ Executor
    \/ \E h \in 1..Len(reqs), e \in {Nil, ErrOther} : gsOutgoingRequestHook(h, e)

ExecSpec == Observed /\ [][ExecNext]_vars

\* The restart dance: OpenChannel on two threads, the executor, the
\* outgoing-request hook, cleanup and shutdown.
OpenNext ==
    \/ SetEventHandler(Session)
    \/ Shutdown
    \/ \E chid \in ChannelIDs : CleanupChannel(chid, TRUE)
    \/ \E x \in Threads : Open(x)
    \/ \E x \in Threads : CtxCancel(x)
    \/ Executor
    \/ \E h \in 1..Len(reqs), e \in {Nil, ErrOther} : gsOutgoingRequestHook(h, e)

OpenSpec == Init /\ [][OpenNext]_vars

\* The incoming-block hook on the side that makes the engine requests.
ReceiveNext ==
    \/ SetEventHandler(Session)
    \/ \E chid \in ChannelIDs : CleanupChannel(chid, TRUE)
    \/ Open(Main)
    \/ Executor
    \/ \E h \in 1..Len(reqs), e \in {Nil, ErrOther} : gsOutgoingRequestHook(h, e)
    \/ gsOutgoingRequestHookNotOurs
    \/ \E id \in ReqIDs, e \in CallbackErrs : gsIncomingBlockHook(id, e)

ReceiveSpec == Observed /\ [][ReceiveNext]_vars

\* The outgoing-block hook and the block-sent listener on the side that
\* answers engine requests.
SendNext ==
    \/ SetEventHandler(Session)
    \/ \E chid \in ChannelIDs : CleanupChannel(chid, TRUE)
    \/ \E p \in Remotes, id \in ReqIDs, msg \in TransferData, r \in SessionResults :
         gsReqRecdHook(p, id, msg, r)
    \/ \E p \in Remotes, id \in ReqIDs, size \in 0..1 : gsBlockSentHook(p, id, size)
    \/ \E p \in Remotes, id \in ReqIDs, size \in 0..1, r \in QueuedResults :
         gsOutgoingBlockHook(p, id, size, r.err, r.msg, r.encOk)

SendSpec == Observed /\ [][SendNext]_vars

\* Both sides at once, with a session that accepts everything: channels
\* opened from one thread, incoming requests, the three block hooks, cleanup.
BlockNext ==
    \/ SetEventHandler(Session)
    \/ \E chid \in ChannelIDs : CleanupChannel(chid, TRUE)
    \/ OpenPlain(Main)
    \/ \E h \in 1..Len(reqs), e \in {Nil, ErrOther} : gsOutgoingRequestHook(h, e)
    \/ \E p \in Remotes, id \in ReqIDs, msg \in Messages : gsReqRecdHook(p, id, msg, Accepted)
    \/ \E id \in ReqIDs : gsIncomingBlockHook(id, Nil)
    \/ \E p \in Remotes, id \in ReqIDs : gsBlockSentHook(p, id, 1)
    \/ \E p \in Remotes, id \in ReqIDs : gsOutgoingBlockHook(p, id, 1, Nil, 0, TRUE)

BlockSpec == Observed /\ [][BlockNext]_vars

\* The answering side of one pull channel: incoming requests and restarts of
\* it, the requestor cancelling, ResumeChannel from one thread, cleanup.
ResumeNext ==
    \/ SetEventHandler(Session)
    \/ \E chid \in ChannelIDs : CleanupChannel(chid, TRUE)
    \/ \E p \in Remotes, id \in ReqIDs, r \in SessionResults :
         gsReqRecdHook(p, id, [kind |-> "request", TransferID |-> 1], r)
    \/ \E p \in Remotes, id \in ReqIDs : gsRequestorCancelledListener(p, id)
    \/ \E chid \in ChannelIDs, msg \in ResumeMsgs : AwaitEnter(Main, "ResumeChannel", chid, msg)
    \/ gsKeyFromChannelID(Main)
    \/ \E ok \in BOOLEAN : ResumeChannel(Main, ok)

ResumeSpec == Observed /\ [][ResumeNext]_vars

\* Awaiting the engine key: one thread opens channels, the other pauses,
\* resumes and closes them while the outgoing-request hook has or has not
\* fired.
Opener == "t1"
Caller == "t2"

AwaitNext ==
    \/ SetEventHandler(Session)
    \/ Open(Opener)
    \/ \E h \in 1..Len(reqs), e \in {Nil, ErrOther} : gsOutgoingRequestHook(h, e)
    \/ Await(Caller)
    \/ CtxCancel(Caller)

AwaitSpec == Observed /\ [][AwaitNext]_vars

\* Handlers: SetEventHandler with every handler a caller can pass, and the
\* operations that look at the handler or at the hooks.
HandlerNext ==
    \/ \E events \in EventsHandlers : SetEventHandler(events)
    \/ Shutdown
    \/ Open(Main)
    \/ \E h \in 1..Len(reqs) : gsOutgoingRequestHook(h, Nil)
    \/ \E chid \in ChannelIDs : CleanupChannel(chid, TRUE)

HandlerSpec == Observed /\ [][HandlerNext]_vars

\* Stores: UseStore and CleanupChannel with an engine that may refuse, and
\* what gives channels their keys.
StoreNext ==
    \/ SetEventHandler(Session)
    \/ \E chid \in ChannelIDs, ok \in BOOLEAN : UseStore(chid, ok)
    \/ \E chid \in ChannelIDs, ok \in BOOLEAN : CleanupChannel(chid, ok)
    \/ OpenPlain(Main)
    \/ \E h \in 1..Len(reqs) : gsOutgoingRequestHook(h, Nil)
    \/ \E p \in Remotes :
         gsReqRecdHook(p, 1, [kind |-> "request", TransferID |-> 1], Accepted)

StoreSpec == Observed /\ [][StoreNext]_vars

\* Restarts: the manager's restart functions above a transport on which
\* channels are opened and reopened.
RestartNext ==
    \/ SetEventHandler(Session)
    \/ OpenPlain(Main)
    \/ \E h \in 1..Len(reqs) : gsOutgoingRequestHook(h, Nil)
    \/ \E chid \in ReceivedChannels, reqErr \in {Nil, ErrNewRequest},
          valErr \in {Nil, ErrVoucher}, sendErr \in {Nil, ErrSendMessage} :
         \/ restartManagerPeerReceivePush(chid, reqErr, valErr, sendErr)
         \/ restartManagerPeerReceivePull(chid, reqErr, valErr, sendErr)
    \/ \E chid \in ChannelIDs \ ReceivedChannels, reqErr \in {Nil, ErrNewRequest},
          has \in BOOLEAN, sendErr \in {Nil, ErrSendMessage} :
         openPushRestartChannel(chid, reqErr, has, sendErr)

RestartSpec == Observed /\ [][RestartNext]_vars

\* The end of a response: incoming requests that bind channels, cleanup, and
\* the completed-response listener with every status.
CompletedNext ==
    \/ SetEventHandler(Session)
    \/ \E chid \in ChannelIDs : CleanupChannel(chid, TRUE)
    \/ \E p \in Remotes, id \in ReqIDs, msg \in Messages : gsReqRecdHook(p, id, msg, Accepted)
    \/ \E p \in Remotes, id \in ReqIDs, status \in Statuses :
         gsCompletedResponseListener(p, id, status)

CompletedSpec == Observed /\ [][CompletedNext]_vars

\* Routing: channels this side opened and channels a remote peer opened,
\* requestors that cancel, and PauseChannel, ResumeChannel and CloseChannel
\* on any of them.
RouteNext ==
    \/ SetEventHandler(Session)
    \/ OpenPlain(Opener)
    \/ \E h \in 1..Len(reqs) : gsOutgoingRequestHook(h, Nil)
    \/ \E p \in Remotes : gsReqRecdHook(p, 1, PullRequest, Accepted)
    \/ \E p \in Remotes : gsRequestorCancelledListener(p, 1)
    \/ \E op \in AwaitOps, chid \in ChannelIDs : AwaitEnter(Caller, op, chid, 0)
    \/ gsKeyFromChannelID(Caller)
    \/ gsKeyFromChannelIDWait(Caller)
    \/ PauseChannel(Caller)
    \/ ResumeChannel(Caller, TRUE)
    \/ CloseChannel(Caller)

RouteSpec == Observed /\ [][RouteNext]_vars

\* Responses to the requests this side made: OpenChannel for channels of
\* either direction, the outgoing-request hook, cleanup, and the
\* incoming-response hook with a payload of either kind.
ResponseNext ==
    \/ SetEventHandler(Session)
    \/ \E chid \in ChannelIDs : CleanupChannel(chid, TRUE)
    \/ OpenPlain(Main)
    \/ \E h \in 1..Len(reqs) : gsOutgoingRequestHook(h, Nil)
    \/ \E p \in Remotes, id \in ReqIDs, msg \in Messages, r \in SessionResults :
         gsIncomingResponseHook(p, id, msg, r)

ResponseSpec == Observed /\ [][ResponseNext]_vars

\* Payloads on running requests, on both sides: the incoming-response hook
\* for the requests this side made and the request-updated hook for the
\* requests a remote peer made.
UpdateNext ==
    \/ SetEventHandler(Session)
    \/ OpenPlain(Main)
    \/ \E h \in 1..Len(reqs) : gsOutgoingRequestHook(h, Nil)
    \/ \E p \in Remotes, msg \in Messages : gsReqRecdHook(p, 1, msg, Accepted)
    \/ \E p \in Remotes, id \in ReqIDs, msg \in Messages, r \in SessionResults :
         gsIncomingResponseHook(p, id, msg, r)
    \/ \E p \in Remotes, id \in ReqIDs, msg \in Messages, r \in SessionResults :
         gsRequestUpdatedHook(p, id, msg, r)

UpdateSpec == Observed /\ [][UpdateNext]_vars

\* Receive errors on the side that opens channels: OpenChannel and its
\* restart, the executor, the outgoing-request hook, cleanup and the
\* receive-error listener.
ReceiveErrorNext ==
    \/ SetEventHandler(Session)
    \/ \E chid \in ChannelIDs : CleanupChannel(chid, TRUE)
    \/ Open(Main)
    \/ Executor
    \/ \E h \in 1..Len(reqs), e \in {Nil, ErrOther} : gsOutgoingRequestHook(h, e)
    \/ \E p \in Remotes : gsNetworkReceiveErrorListener(p)

ReceiveErrorSpec == Observed /\ [][ReceiveErrorNext]_vars

\* What the session is told after a completion: the executor and the
\* completed-response listener, then the hooks and listeners that may still
\* fire, and cleanup.
DoneNext ==
    \/ SetEventHandler(Session)
    \/ \E chid \in ChannelIDs : CleanupChannel(chid, TRUE)
    \/ OpenPlain(Main)
    \/ Executor
    \/ \E h \in 1..Len(reqs) : gsOutgoingRequestHook(h, Nil)
    \/ \E p \in Remotes : gsReqRecdHook(p, 1, MsgFor([Initiator |-> p, Responder |-> Local, ID |-> 1]), Accepted)
    \/ \E p \in Remotes : gsCompletedResponseListener(p, 1, RequestCompletedFull)
    \/ \E id \in ReqIDs : gsIncomingBlockHook(id, Nil)
    \/ \E p \in Remotes, id \in ReqIDs : gsNetworkSendErrorListener(p, id)
    \/ \E p \in Remotes : gsNetworkReceiveErrorListener(p)

DoneSpec == Observed /\ [][DoneNext]_vars

\* ------------------------------------------------------------------ the registry maps

\* C1: the key->channel map and the channel->key map are mutual inverses
\* after every operation and hook, restarts included: every channel with a
\* key is the channel of its key, and every key is the key of its channel.
MutualInverses ==
    /\ \A c \in DOMAIN t.channelIDMap :
         /\ Has(t.graphsyncRequestMap, t.channelIDMap[c])
         /\ t.graphsyncRequestMap[t.channelIDMap[c]] = c
    /\ \A k \in DOMAIN t.graphsyncRequestMap :
         /\ Has(t.channelIDMap, t.graphsyncRequestMap[k])
         /\ t.channelIDMap[t.graphsyncRequestMap[k]] = k

\* c has an entry in some registry map
HasRecord(tt, c) ==
    \/ Has(tt.channelIDMap, c)
    \/ c \in Range(tt.graphsyncRequestMap)
    \/ Has(tt.contextCancelMap, c)
    \/ Has(tt.pending, c)
    \/ c \in tt.requestorCancelledMap
    \/ Has(tt.channelXferStarted, c)
    \/ Has(tt.pendingExtensions, c)
    \/ c \in tt.stores

\* C10: after CleanupChannel(c) returns c has no entry in any registry map,
\* also when c was opened and has no key yet; after Shutdown no channel has.
RecordDestroyed ==
    [][/\ \A c \in ChannelIDs : CleanupChannel(c, TRUE) => ~HasRecord(t', c)
       /\ Shutdown => \A c \in ChannelIDs : ~HasRecord(t', c)]_vars

\* C9: CleanupChannel is idempotent: from every reachable state, a second
\* CleanupChannel(c) right after a first leaves every registry map and the
\* engine's persistence options as the first left them, and makes no engine
\* call, whether or not the engine unregisters the option.
CleanupIdempotent ==
    \A c \in ChannelIDs, ok1 \in BOOLEAN, ok2 \in BOOLEAN :
        LET once == CleanupChannelOp(t, gs, c, ok1)
            twice == CleanupChannelOp(once.t, once.gs, c, ok2)
        IN  /\ twice.t = once.t
            /\ twice.gs = once.gs
            /\ twice.calls = << >>

\* a channel with a key, a cancel handle and a store: the first cleanup
\* removes them and unregisters the option
CleanupHasWork ==
    \E c \in ChannelIDs :
        /\ Has(t.channelIDMap, c) /\ Has(t.contextCancelMap, c) /\ c \in t.stores
        /\ CleanupChannelOp(t, gs, c, TRUE).t # t
        /\ CleanupChannelOp(t, gs, c, TRUE).calls # << >>

\* ------------------------------------------------------------------ OpenChannel and restarts

\* thread x is in the body of OpenChannel: it holds its channel's lock
InBody(x) == th[x].op = "OpenChannel" /\ th[x].pc \in {"locked", "wait", "minwait", "relock", "request"}

\* the cancel handles created for channel c
Handles(c) == {h \in 1..Len(reqs) : reqs[h].chid = c}

CancelledBeforeRequest ==
    \A x \in Threads :
        th[x].op = "OpenChannel" /\ th[x].pc = "request" /\ th[x].old # 0 =>
            /\ reqs[th[x].h].state = "created"
            /\ reqs[th[x].old].cancelled
            /\ \/ /\ th[x].wait = "minGSCancelWait"
                  /\ reqs[th[x].old].completed
                  /\ reqs[th[x].old].state = "done"
               \/ th[x].wait = "maxGSCancelWait"

\* a restart about to issue its Request after the old executor finished
RestartAfterCompletion ==
    \E x \in Threads :
        /\ th[x].pc = "request" /\ th[x].old # 0
        /\ th[x].wait = "minGSCancelWait"
        /\ reqs[th[x].old].state = "done"

\* a restart about to issue its Request while the old executor still runs
RestartAfterCeiling ==
    \E x \in Threads :
        /\ th[x].pc = "request" /\ th[x].old # 0
        /\ th[x].wait = "maxGSCancelWait"
        /\ reqs[th[x].old].state = "running"

\* ------------------------------------------------------------------ the executor's events

\* the events that end a request
Terminal == {"OnChannelCompleted", "OnRequestTimedOut"}

\* the step in which the executor of request h classifies the last error
Classifies(h) == reqs[h].state = "running" /\ reqs'[h].state = "fired"

\* C2 as stated: the executor of every request fires exactly one of
\* OnChannelCompleted and OnRequestTimedOut for the request's channel,
\* whatever ended the request.
ExactlyOneCompletion ==
    [][\A h \in 1..Len(reqs) : Classifies(h) => CountFor(calls', Terminal, reqs[h].chid) = 1]_vars

\* C2: the executor of a request fires at most one event, for the request's
\* channel: OnRequestTimedOut when the engine reports the request's context
\* cancelled; nothing when the engine reports the request cancelled, or when
\* the request's own context has been cancelled and the engine reports
\* anything else; OnChannelCompleted otherwise.
CompletionUnlessCancelled ==
    [][\A h \in 1..Len(reqs) : Classifies(h) =>
         LET lastError == reqs'[h].lastError
             silent == \/ lastError = RequestCancelledErr
                       \/ lastError # RequestContextCancelledErr /\ reqs[h].cancelled
         IN  /\ Len(calls') = IF silent THEN 0 ELSE 1
             /\ \A i \in 1..Len(calls') :
                  /\ calls'[i].kind = "event" /\ calls'[i].chid = reqs[h].chid
                  /\ calls'[i].name = IF lastError = RequestContextCancelledErr
                                      THEN "OnRequestTimedOut" ELSE "OnChannelCompleted"]_vars

\* the executor of a request cancelled by CloseChannel, a restart or Shutdown
\* has seen the streams end without an error and has fired nothing
CancelledSilently ==
    \E h \in 1..Len(reqs) :
        /\ reqs[h].state = "fired" /\ reqs[h].cancelled /\ reqs[h].lastError = Nil
        /\ calls = << >>

\* ------------------------------------------------------------------ the block hooks

DataEvents == {"OnDataReceived", "OnDataQueued", "OnDataSent"}

\* the events of cs with a name of names
EventsOf(cs, names) == {i \in 1..Len(cs) : cs[i].kind = "event" /\ cs[i].name \in names}

\* C3 as stated: on both sides, no data event is delivered for a channel
\* before OnChannelOpened has been delivered for it.
DataAfterOpened ==
    \A i \in EventsOf(calls, DataEvents) : calls[i].chid \in hist.opened

\* C3: OnDataReceived, the data event of the side that made the engine
\* request, is never delivered for a channel before OnChannelOpened has been
\* delivered for it.
ReceivedAfterOpened ==
    \A i \in EventsOf(calls, {"OnDataReceived"}) : calls[i].chid \in hist.opened

\* the incoming-block hook has delivered OnDataReceived
DataReceived == EventsOf(calls, {"OnDataReceived"}) # {}

\* C7: when the incoming-block hook delivers OnDataReceived, it calls
\* PauseRequest once and never TerminateWithError if the session returns the
\* pause sentinel, TerminateWithError and never PauseRequest if it returns
\* another error, and neither if it returns nil.
PauseOrTerminate ==
    \A i \in EventsOf(calls, {"OnDataReceived"}) :
        /\ Count(calls, {"PauseRequest"}) = IF calls[i].p = ErrPause THEN 1 ELSE 0
        /\ Count(calls, {"TerminateWithError"}) = IF calls[i].p \notin {Nil, ErrPause} THEN 1 ELSE 0
        /\ Names(calls, "hook") \subseteq {"PauseRequest", "TerminateWithError"}

\* the session has returned the pause sentinel from OnDataReceived and the
\* hook has paused the request
PausedOnReceive ==
    \E i \in EventsOf(calls, {"OnDataReceived"}) :
        calls[i].p = ErrPause /\ Count(calls, {"PauseRequest"}) = 1

\* C8: for a block of size 0 on the wire, the outgoing-block hook and the
\* block-sent listener make no call at all, whatever the registry holds and
\* whatever the session would return; for a block of another size on a
\* request mapped to a channel, each delivers exactly one event, for that
\* channel: OnDataQueued and OnDataSent.
ZeroSizeSilent ==
    \A p \in Remotes, id \in ReqIDs :
        LET gsKey == graphsyncKey(id, p)
            one(cs, name) == /\ EventsOf(cs, DataEvents) = {1}
                             /\ cs[1].name = name
                             /\ cs[1].chid = t.graphsyncRequestMap[gsKey]
        IN  /\ blockSent(t, gsKey, 0) = << >>
            /\ Has(t.graphsyncRequestMap, gsKey) => one(blockSent(t, gsKey, 1), "OnDataSent")
            /\ \A r \in QueuedResults :
                 /\ outgoingBlock(t, gsKey, 0, r.err, r.msg, r.encOk) = << >>
                 /\ Has(t.graphsyncRequestMap, gsKey) =>
                      one(outgoingBlock(t, gsKey, 1, r.err, r.msg, r.encOk), "OnDataQueued")

\* the block-sent listener has delivered OnDataSent for a request that is
\* still mapped: a block of size 0 would now be dropped
DataSent ==
    /\ EventsOf(calls, {"OnDataSent"}) # {}
    /\ \E k \in DOMAIN t.graphsyncRequestMap : k.p \in Remotes

\* ------------------------------------------------------------------ after completion

\* the events the hooks and listeners deliver for the channel of a request
\* they look up in the key->channel map
HookEvents == DataEvents \cup {"OnSendDataError", "OnReceiveDataError"}

PendingIffNoKey ==
    \A c \in ChannelIDs :
        HasRecord(t, c) => (Has(t.pending, c) <=> ~Has(t.channelIDMap, c))

\* C11: a pending latch exists only for a channel with a cancel handle, it
\* is the latch created with that handle, it is open, and the
\* outgoing-request hook has not fired for that handle's request.
PendingUntilHook ==
    \A c \in DOMAIN t.pending :
        /\ Has(t.contextCancelMap, c)
        /\ t.contextCancelMap[c] = t.pending[c]
        /\ reqs[t.pending[c]].chid = c
        /\ ~reqs[t.pending[c]].hooked
        /\ ~reqs[t.pending[c]].pendingClosed

\* a restarted channel: it still has the key of its old request and has the
\* latch of its new one
PendingWithKey ==
    \E c \in DOMAIN t.pending : Has(t.channelIDMap, c)

\* ------------------------------------------------------------------ the cancel handle

\* C12: a channel has a cancel handle exactly when this node opened the
\* engine request for it: a channel with a handle was opened here, a channel
\* whose key has the local peer has a handle, and a channel whose key has a
\* remote peer has none.
HandleIffOpenedHere ==
    /\ \A c \in DOMAIN t.contextCancelMap : Handles(c) # {}
    /\ \A c \in DOMAIN t.channelIDMap :
         t.channelIDMap[c].p = Local <=> Has(t.contextCancelMap, c)

\* ------------------------------------------------------------------ deferred extensions

\* the deferred extensions of channel c
Deferred(tt, c) == IF Has(tt.pendingExtensions, c) THEN tt.pendingExtensions[c] ELSE << >>

\* C13: a channel's deferred-extensions list is non-empty only while its
\* requestor-cancelled flag is set; a step that clears the flag leaves the
\* list empty.
DeferredOnlyWhileCancelled ==
    \A c \in ChannelIDs : Deferred(t, c) # << >> => c \in t.requestorCancelledMap

\* a channel whose requestor cancelled holds deferred extensions
HoldsDeferred ==
    \E c \in t.requestorCancelledMap : Deferred(t, c) # << >>

\* ------------------------------------------------------------------ stores

\* C14: a channel whose store flag is set has its persistence option
\* registered with the engine; UseStore for a flagged channel makes no
\* engine call and changes nothing; UseStore whose registration fails leaves
\* the flag unset, and one whose registration succeeds sets it; and the
\* cleanup of a channel unregisters the option exactly when the flag was set,
\* and clears the flag.
StoreFlagRegistered ==
    [][/\ \A c \in t'.stores : c \in gs'.options
       /\ \A c \in ChannelIDs, ok \in BOOLEAN :
            UseStore(c, ok) =>
               /\ c \in t.stores => t' = t /\ gs' = gs /\ Names(calls', "gs") = {}
               /\ c \notin t.stores =>
                    /\ Count(calls', {"RegisterPersistenceOption"}) = 1
                    /\ c \in t'.stores <=> ok
                    /\ t'.stores \ {c} = t.stores
       /\ \A c \in DOMAIN t.channelIDMap, ok \in BOOLEAN :
            CleanupChannel(c, ok) =>
               /\ Count(calls', {"UnregisterPersistenceOption"}) = IF c \in t.stores THEN 1 ELSE 0
               /\ c \notin t'.stores
               /\ c \in t.stores /\ ok => c \notin gs'.options]_vars

\* a second UseStore for a flagged channel has returned without a call
UsedStoreTwice ==
    \E c \in t.stores :
        /\ c \in gs.options
        /\ Len(calls) = 1 /\ calls[1].kind = "return" /\ calls[1].name = "UseStore"
        /\ calls[1].chid = c /\ calls[1].p = Nil

\* ----------------------------------------------------------------- handler

\* C15: once a SetEventHandler call has registered the eleven hooks, every
\* later call returns the handler-already-set error, leaves the installed
\* handler unchanged and registers nothing; and the first call installs the
\* handler it was given together with all eleven hooks.
HandlerSetOnce ==
    [][\A events \in EventsHandlers :
         SetEventHandler(events) =>
            IF t.unregisterFuncs = {}
            THEN /\ t'.events = events
                 /\ AllHooks \subseteq gs'.hooks
                 /\ Cardinality(gs'.hooks) = 11
            ELSE /\ calls' = <<Return("-", "SetEventHandler", NoChan, ErrHandlerAlreadySet)>>
                 /\ t' = t
                 /\ gs' = gs]_vars

\* ---------------------------------------------------------- awaiting the key

\* the thread has waited on a pending latch in this call
Waited(x) == th[x].op \in AwaitOps /\ th[x].h # 0

NotFound(x) == <<Return(x, th[x].op, th[x].chid, ErrChannelNotFound)>>

\* C16: PauseChannel, ResumeChannel and CloseChannel return channel-not-found
\* without an engine call when the channel has neither a key nor a pending
\* latch; with a latch and no key they block until the outgoing-request hook
\* fires, and then act on the key the hook assigned.
AwaitActsOnHookKey ==
    [][\A x \in Threads :
         /\ gsKeyFromChannelID(x) =>
              /\ ~Has(t.channelIDMap, th[x].chid) /\ ~Has(t.pending, th[x].chid) /\ ~Waited(x)
                   => calls' = NotFound(x)
              /\ ~Has(t.channelIDMap, th[x].chid) /\ Has(t.pending, th[x].chid)
                   => th'[x].pc = "latchwait" /\ calls' = << >>
              /\ Waited(x) =>
                   /\ th'[x].pc = "act"
                   /\ th'[x].key \in {graphsyncKey(h, Local) : h \in 1..Len(reqs)}
         /\ gsKeyFromChannelIDWait(x) /\ ~th[x].ctx =>
              \E h \in 1..Len(reqs) : reqs[h].hooked /\ reqs[h].chid = th[x].chid]_vars

\* C16 as the code has it: as above, but the wait ends when the hook fires or
\* the caller's context is done, and after a wait the operation acts only if
\* the hook installed a key: when the session refused OnChannelOpened the hook
\* closes the latch without a key and the operation returns channel-not-found.
AwaitActsOnAssignedKey ==
    [][\A x \in Threads :
         /\ gsKeyFromChannelID(x) =>
              /\ ~Has(t.channelIDMap, th[x].chid) /\ ~Has(t.pending, th[x].chid)
                   => calls' = NotFound(x) /\ th'[x] = Idle
              /\ ~Has(t.channelIDMap, th[x].chid) /\ Has(t.pending, th[x].chid)
                   => th'[x].pc = "latchwait" /\ calls' = << >>
              /\ Has(t.channelIDMap, th[x].chid) =>
                   /\ th'[x].pc = "act" /\ calls' = << >>
                   /\ th'[x].key = t.channelIDMap[th[x].chid]
                   /\ \E h \in 1..Len(reqs) :
                        /\ th'[x].key = graphsyncKey(h, Local)
                        /\ reqs[h].hooked /\ reqs[h].chid = th[x].chid
         /\ gsKeyFromChannelIDWait(x) =>
              \/ /\ \E h \in 1..Len(reqs) : reqs[h].hooked /\ reqs[h].chid = th[x].chid
                 /\ th'[x].pc = "await" /\ calls' = << >>
              \/ th[x].ctx /\ calls' = NotFound(x) /\ th'[x] = Idle]_vars

\* an operation that waited on the latch now acts on the key the hook gave
ActsAfterWait ==
    \E x \in Threads :
        /\ Waited(x) /\ th[x].pc = "act"
        /\ Has(t.channelIDMap, th[x].chid) /\ th[x].key = t.channelIDMap[th[x].chid]

\* ------------------------------------------------------------ restart pause

\* the transfer-started flag of channel c is present and true
Started(tt, c) == Has(tt.channelXferStarted, c) /\ tt.channelXferStarted[c]

\* the transfer-started flag of channel c is present and false
Held(tt, c) == Has(tt.channelXferStarted, c) /\ ~tt.channelXferStarted[c]

\* the flag of c turns true in this step only through ResumeChannel on the
\* responder path or an incoming-request hook that ends unpaused
StartedOnlyByResumeOrHook ==
    \A c \in ChannelIDs :
        Started(t', c) /\ ~Started(t, c) =>
            \/ \E x \in Threads :
                 /\ th[x].op = "ResumeChannel" /\ th[x].chid = c /\ th[x].key.p # Local
                 /\ Count(calls', {"UnpauseResponse"}) = 1
            \/ /\ Count(calls', {"ValidateRequest"}) = 1
               /\ Count(calls', {"PauseResponse"}) = 0

\* C17: when the incoming-request hook runs for a channel whose
\* transfer-started flag exists and is false, and the session returned no
\* error, the hook invokes PauseResponse and the flag is false afterwards; and
\* the flag becomes true only through ResumeChannel on the responder path or
\* an incoming-request hook that ends unpaused.
RestartStaysPaused ==
    [][/\ \A p \in Remotes, id \in ReqIDs, r \in SessionResults :
            LET c == ChannelIDOf(PullRequest, p, FALSE)
            IN  gsReqRecdHook(p, id, PullRequest, r) /\ Held(t, c) /\ r.err = Nil =>
                   /\ Count(calls', {"PauseResponse"}) = 1
                   /\ Held(t', c)
       /\ StartedOnlyByResumeOrHook]_vars

\* C17 as the code has it: the hook pauses the restart when it gets as far as
\* the registry, which it does not when the session's response message fails
\* to serialize: then it terminates the request, without PauseResponse, and
\* the flag is left as it was.
RestartStaysPausedUnlessTerminated ==
    [][/\ \A p \in Remotes, id \in ReqIDs, r \in SessionResults :
            LET c == ChannelIDOf(PullRequest, p, FALSE)
            IN  gsReqRecdHook(p, id, PullRequest, r) /\ Held(t, c) /\ r.err = Nil =>
                   /\ Held(t', c)
                   /\ IF r.resp = 0 \/ r.encOk
                      THEN /\ Count(calls', {"PauseResponse"}) = 1
                           /\ Count(calls', {"TerminateWithError"}) = 0
                           /\ Count(calls', {"ValidateRequest"}) = 1
                      ELSE /\ Count(calls', {"PauseResponse"}) = 0
                           /\ Count(calls', {"TerminateWithError"}) = 1
                           /\ t' = t
       /\ StartedOnlyByResumeOrHook]_vars

\* the hook has paused a restart the session accepted
RestartPaused ==
    /\ \E i \in 1..Len(calls) : calls[i] = Action("PauseResponse", "W")
    /\ \E c \in ChannelIDs : Held(t, c)

\* --------------------------------------------------------- deferred replay

\* the extensions the hook sent from the deferred list, in the order sent
Replayed(cs) ==
    SelectSeq(cs, LAMBDA c : c.kind = "hook" /\ c.name = "SendExtensionData" /\ c.lock = "W")

\* the hook gets as far as the registry: the session's response serialized
\* and the session returned nil or the pause sentinel
ReachesRegistry(r) == (r.resp = 0 \/ r.encOk) /\ r.err \in {Nil, ErrPause}

\* ResumeChannel on the responder side, while the requestor-cancelled flag of
\* the channel is set, makes no engine call and appends the message's
\* extensions to the deferred list
ResumeDefers ==
    \A x \in Threads, ok \in BOOLEAN :
        LET c == th[x].chid
        IN  /\ ResumeChannel(x, ok)
            /\ th[x].key.p # Local /\ c \in t.requestorCancelledMap
            /\ th[x].msg = 0 \/ ok
            => /\ Names(calls', "gs") = {}
               /\ c \in t'.requestorCancelledMap
               /\ Deferred(t', c) = Deferred(t, c) \o
                     (IF th[x].msg = 0 THEN << >> ELSE ToExtensionData(th[x].msg))

\* C18: while a channel's requestor-cancelled flag is set, ResumeChannel(msg)
\* on the responder side makes no engine call and appends msg's extensions to
\* the deferred list; the next incoming-request hook for the channel sends
\* the deferred extensions in the order they were queued, clears the flag and
\* empties the list.
NextHookReplays ==
    [][/\ ResumeDefers
       /\ \A p \in Remotes, id \in ReqIDs, r \in SessionResults :
            LET c == ChannelIDOf(PullRequest, p, FALSE)
            IN  gsReqRecdHook(p, id, PullRequest, r) /\ c \in t.requestorCancelledMap =>
                   /\ Replayed(calls') = Send("SendExtensionData", Deferred(t, c), "W")
                   /\ c \notin t'.requestorCancelledMap
                   /\ Deferred(t', c) = << >>]_vars

\* C18 as the code has it: the deferred extensions are replayed, in order and
\* once, by the next incoming-request hook that gets as far as the registry;
\* a hook that terminates the request before that sends none of them and
\* leaves the flag and the list as they were.
AcceptedHookReplays ==
    [][/\ ResumeDefers
       /\ \A p \in Remotes, id \in ReqIDs, r \in SessionResults :
            LET c == ChannelIDOf(PullRequest, p, FALSE)
            IN  gsReqRecdHook(p, id, PullRequest, r) /\ c \in t.requestorCancelledMap =>
                   IF ReachesRegistry(r)
                   THEN /\ Replayed(calls') = Send("SendExtensionData", Deferred(t, c), "W")
                        /\ c \notin t'.requestorCancelledMap
                        /\ Deferred(t', c) = << >>
                   ELSE /\ Replayed(calls') = << >>
                        /\ Count(calls', {"TerminateWithError"}) = 1
                        /\ t' = t]_vars

\* the hook has replayed the extensions of two messages, first queued first
ReplayedTwo ==
    /\ Len(Replayed(calls)) = 2 * Len(supportedExtensions)
    /\ Replayed(calls)[1].id # Replayed(calls)[Len(Replayed(calls))].id

\* ----------------------------------------------------------- receive errors

\* the channels the registry holds under some engine key
Registered(tt) == Range(tt.graphsyncRequestMap) \cup DOMAIN tt.channelIDMap

\* C19: when the receive-error listener fires for peer p, the session gets
\* exactly one OnReceiveDataError for every registered channel whose
\* initiator or responder is p, and none for any other channel, also after a
\* restart has bound the channel to a new engine request.
OneReceiveErrorPerChannel ==
    [][\A p \in Remotes :
         gsNetworkReceiveErrorListener(p) =>
            \A c \in ChannelIDs :
                CountFor(calls', {"OnReceiveDataError"}, c) =
                    IF c \in Registered(t) /\ (c.Initiator = p \/ c.Responder = p) THEN 1 ELSE 0]_vars

\* ------------------------------------------------------------------ restarts

PeerReceived == {"restartManagerPeerReceivePush", "restartManagerPeerReceivePull"}

\* the positions in cs of the manager calls named name
At(cs, name) == {i \in 1..Len(cs) : cs[i].kind = "manager" /\ cs[i].name = name}

\* C20: in a restart of a peer-received push or pull channel the
\* restart-request message is sent only after the request was reconstructed
\* and the validator accepted the voucher, in that order; when reconstruction
\* or validation fails the restart returns that error and sends no message.
RevalidatedBeforeSend ==
    Len(calls) > 0 /\ calls[Len(calls)].kind = "return" /\ calls[Len(calls)].name \in PeerReceived =>
        LET isPull == IF calls[Len(calls)].name = "restartManagerPeerReceivePull" THEN Pull ELSE Push
            failed == {i \in At(calls, "NewRequest") \cup At(calls, "validateVoucher") : calls[i].p # Nil}
        IN  /\ \A i \in At(calls, "SendMessage") :
                 /\ calls[i].lock = "RestartRequest"
                 /\ \E j \in At(calls, "NewRequest"), k \in At(calls, "validateVoucher") :
                      /\ j < k /\ k < i
                      /\ calls[j].p = Nil /\ calls[k].p = Nil
                      /\ calls[j].lock = isPull /\ calls[k].lock = isPull
                      /\ calls[j].chid = calls[i].chid /\ calls[k].chid = calls[i].chid
            /\ failed # {} =>
                 /\ At(calls, "SendMessage") = {}
                 /\ \A i \in failed : calls[Len(calls)].p = calls[i].p
            /\ failed = {} => Cardinality(At(calls, "SendMessage")) = 1

\* a peer-received restart has sent its restart-request message
RestartRequestSent ==
    /\ Len(calls) > 0 /\ calls[Len(calls)].name \in PeerReceived
    /\ \E i \in At(calls, "SendMessage") : calls[i].lock = "RestartRequest"

\* ------------------------------------------------------------ the registry lock

\* C21: at every call the adapter makes into the engine or into a session
\* callback, the calling thread holds neither the read nor the write side of
\* the registry lock.
NoCallUnderRegistryLock ==
    \A i \in 1..Len(calls) :
        calls[i].kind \in {"gs", "event"} => calls[i].lock = "none"

\* ------------------------------------------------------------ the executor's exit

\* the session events of a classification, by the engine's last error and
\* the request's cancel token
Classified(chid, lastError, cancelled) ==
    CASE lastError = RequestContextCancelledErr ->
             <<EventErr("OnRequestTimedOut", chid, ErrOther, "none")>>
      [] lastError = RequestCancelledErr -> << >>
      [] lastError \in {Nil, ErrOther} /\ cancelled -> << >>
      [] lastError = Nil /\ ~cancelled ->
             <<EventErr("OnChannelCompleted", chid, Nil, "none")>>
      [] lastError = ErrOther /\ ~cancelled ->
             <<EventErr("OnChannelCompleted", chid, ErrOther, "none")>>

\* C22: the executor closes the completed latch of its request when it
\* exits, in every case, and what it tells the session is decided by the last
\* error of the drained error stream and then by the cancel token:
\* request-context-cancelled gives OnRequestTimedOut only, request-cancelled
\* gives nothing, otherwise a cancelled token gives nothing, otherwise
\* OnChannelCompleted with nil for no error and with an error for one.
ExecutorClassifiesAndCloses ==
    [][\A h \in 1..Len(reqs) :
         /\ Classifies(h) =>
              /\ calls' = Classified(reqs[h].chid, reqs'[h].lastError, reqs[h].cancelled)
              /\ ~reqs'[h].completed
         /\ onComplete(h) => reqs'[h].completed /\ reqs'[h].state = "done" /\ calls' = << >>
         /\ reqs[h].state = "fired" => ENABLED onComplete(h)
         /\ reqs'[h].completed <=> reqs'[h].state = "done"]_vars

\* the executor of a request nobody cancelled has reported the completion to
\* the session and has closed the latch
FailedAndClosed ==
    \E h \in 1..Len(reqs) :
        /\ reqs[h].state = "done" /\ reqs[h].completed /\ ~reqs[h].cancelled
        /\ \E c \in hist.completed : c = reqs[h].chid

\* ------------------------------------------------------------ the end of a response

\* C23: the completed-response listener fires nothing for a request that is
\* not mapped under (request id, remote peer) and nothing when the status is
\* cancelled; otherwise it fires exactly one OnChannelCompleted, for the
\* mapped channel, whose error is nil exactly when the status is
\* completed-full.
CompletedByStatus ==
    [][\A p \in Remotes, id \in ReqIDs, status \in Statuses :
         gsCompletedResponseListener(p, id, status) =>
            LET gsKey == graphsyncKey(id, p)
            IN  IF ~Has(t.graphsyncRequestMap, gsKey) \/ status = RequestCancelled
                THEN calls' = << >>
                ELSE /\ Len(calls') = 1
                     /\ calls'[1].kind = "event" /\ calls'[1].name = "OnChannelCompleted"
                     /\ calls'[1].chid = t.graphsyncRequestMap[gsKey]
                     /\ calls'[1].p = Nil <=> status = RequestCompletedFull]_vars

\* the listener has reported a response that did not complete in full
CompletedWithError ==
    /\ Len(calls) = 1 /\ calls[1].name = "OnChannelCompleted" /\ calls[1].p # Nil
    /\ calls[1].chid \in Range(t.graphsyncRequestMap)

\* ------------------------------------------------------------ routing

RequestSide == {"PauseRequest", "UnpauseRequest", "cancel"}
ResponseSide == {"PauseResponse", "UnpauseResponse", "CancelResponse"}

\* what the step calls on the engine or on a cancel handle
EngineCalls(cs) == Names(cs, "gs") \cup Names(cs, "cancel")

Terminated == <<Action("TerminateWithError", "none")>>

\* C25 as stated: in the incoming-response hook a request payload that
\* arrives over a channel whose initiator is the remote peer, and whose
\* responder is the local peer, is refused: the hook terminates and
\* OnRequestReceived is not invoked.
RequestFromInitiatorRefused ==
    [][\A p \in Remotes, id \in ReqIDs, msg \in Messages, r \in SessionResults :
         LET gsKey == graphsyncKey(id, Local)
         IN  /\ gsIncomingResponseHook(p, id, msg, r)
             /\ Has(t.graphsyncRequestMap, gsKey) /\ IsRequest(msg)
             /\ t.graphsyncRequestMap[gsKey].Initiator = p
             /\ t.graphsyncRequestMap[gsKey].Responder = Local
             => /\ Count(calls', {"TerminateWithError"}) = 1
                /\ Count(calls', {"OnRequestReceived"}) = 0]_vars

\* C25 as the code has it: in the incoming-response hook a request payload
\* is passed to OnRequestReceived exactly when the channel of the engine
\* request has the remote peer as initiator, the local peer as responder and
\* the payload's transfer id; over any other channel it is refused: the hook
\* terminates and the session gets no event.
RequestFromInitiatorOnly ==
    [][\A p \in Remotes, id \in ReqIDs, msg \in Messages, r \in SessionResults :
         LET gsKey == graphsyncKey(id, Local)
         IN  /\ gsIncomingResponseHook(p, id, msg, r)
             /\ Has(t.graphsyncRequestMap, gsKey) /\ IsRequest(msg)
             => IF t.graphsyncRequestMap[gsKey] =
                      [Initiator |-> p, Responder |-> Local, ID |-> msg.TransferID]
                THEN /\ Count(calls', {"OnRequestReceived"}) = 1
                     /\ calls'[1] = Event("OnRequestReceived", t.graphsyncRequestMap[gsKey], "none")
                ELSE calls' = Terminated]_vars

\* the session has been given a request that came with a response on a
\* channel the remote peer initiated
RequestTakenFromInitiator ==
    /\ Len(calls) > 0 /\ calls[1].kind = "event" /\ calls[1].name = "OnRequestReceived"
    /\ calls[1].chid.Initiator \in Remotes
    /\ \E k \in DOMAIN t.graphsyncRequestMap :
         k.p = Local /\ t.graphsyncRequestMap[k] = calls[1].chid

\* the channel a payload from p belongs to, by its kind and transfer id
PayloadChannel(msg, p) ==
    IF msg.kind = "request"
    THEN [Initiator |-> p, Responder |-> Local, ID |-> msg.TransferID]
    ELSE [Initiator |-> Local, Responder |-> p, ID |-> msg.TransferID]

\* C26: in the incoming-response hook and in the request-updated hook, a
\* payload whose channel, by its transfer id, its kind and the two peers, is
\* not the channel of the engine request makes the hook terminate the
\* request: the session gets no event and no extension is sent.
MismatchTerminates ==
    [][\A p \in Remotes, id \in ReqIDs, msg \in Messages, r \in SessionResults :
         /\ /\ gsIncomingResponseHook(p, id, msg, r)
            /\ Has(t.graphsyncRequestMap, graphsyncKey(id, Local))
            /\ t.graphsyncRequestMap[graphsyncKey(id, Local)] # PayloadChannel(msg, p)
            => calls' = Terminated
         /\ /\ gsRequestUpdatedHook(p, id, msg, r)
            /\ Has(t.graphsyncRequestMap, graphsyncKey(id, p))
            /\ t.graphsyncRequestMap[graphsyncKey(id, p)] # PayloadChannel(msg, p)
            => calls' = Terminated]_vars

\* a hook has terminated a request without telling the session anything,
\* while requests of both sides are mapped
TerminatedWithoutEvent ==
    /\ calls = Terminated
    /\ \E k \in DOMAIN t.graphsyncRequestMap : k.p = Local
    /\ \E k \in DOMAIN t.graphsyncRequestMap : k.p \in Remotes

\* ------------------------------------------------------------ suspensions

\* thread x is suspended: on a pending latch, in waitForCancelComplete, or
\* on the channel lock another OpenChannel holds
Suspended(x) ==
    \/ th[x].op \in AwaitOps /\ th[x].pc = "latchwait" /\ ~reqs[th[x].h].pendingClosed
    \/ th[x].op = "OpenChannel" /\ th[x].pc \in {"wait", "minwait"}
    \/ th[x].op = "OpenChannel" /\ th[x].pc = "lock" /\ Has(chanLocker, th[x].chid)

\* the suspended operation of thread x returns to its caller
Returns(x) ==
    /\ gsKeyFromChannelIDWait(x) \/ OpenChannelWait(x) \/ OpenChannelLock(x)
    /\ th'[x] = Idle

\* C27: every suspension of a facade operation can be ended by the caller's
\* context: an operation that is suspended on a pending latch, in
\* waitForCancelComplete or on the channel lock, and whose context is done,
\* can return.
SuspensionsCancellable ==
    \A x \in Threads : Suspended(x) /\ th[x].ctx => ENABLED Returns(x)

\* the same for the suspensions that select on the context: the pending
\* latch and waitForCancelComplete
SelectsCancellable ==
    \A x \in Threads :
        Suspended(x) /\ th[x].ctx /\ th[x].pc # "lock" => ENABLED Returns(x)

\* ------------------------------------------------------------ the pending latch

\* C28: no wakeup is lost on the pending latch: a step that replaces a
\* channel's pending latch or removes it from the registry leaves that latch
\* closed, so that whoever waits on it is released.
NoLatchDroppedOpen ==
    [][\A c \in DOMAIN t.pending :
         ~Has(t'.pending, c) \/ t'.pending[c] # t.pending[c]
            => reqs'[t.pending[c]].pendingClosed]_vars

\* ------------------------------------------------------------ the key after a restart

\* C29: once a restart has cancelled a channel's previous request and issued
\* a new one, await-engine-key gives PauseChannel, ResumeChannel and
\* CloseChannel only the key of the most recently opened request, never the
\* key of the cancelled one.
KeyOfCurrentRequest ==
    [][\A x \in Threads :
         LET c == th[x].chid
         IN  /\ gsKeyFromChannelID(x) /\ th'[x].pc = "act"
             /\ Has(t.contextCancelMap, c)
             /\ reqs[t.contextCancelMap[c]].state # "created"
             => th'[x].key = graphsyncKey(t.contextCancelMap[c], Local)]_vars

====
